---- MODULE Spec2Model ----
(***************************************************************************)
(* Model of the read path of omnifocus-mcp: the flat query tool            *)
(* (query_omnifocus), the hierarchical tree tool (get_tree), the search    *)
(* and browse tools, and the relative-date preprocessing of filters.       *)
(*                                                                         *)
(* A tool call is three steps: the Python handler builds a script (or a    *)
(* parameter object) and hands it to the automation bridge; OmniFocus      *)
(* evaluates it against the store; the handler returns the response.       *)
(***************************************************************************)
EXTENDS Integers, Sequences, FiniteSets, TLC

VARIABLES
    now,      \* the current instant, in ticks since the start of the current day
    pc,       \* where the tool call in progress stands: idle, bridge, done
    call,     \* the arguments of the tool call in progress
    sent,     \* what the handler handed to the bridge (a script or parameters)
    spawned,  \* osascript processes started for the call in progress
    result    \* the response of the call

vars == <<now, pc, call, sent, spawned, result>>

----------------------------------------------------------------------------
(* Bounds of the model.                                                    *)

\* ticks of the clock in one calendar day
TicksPerDay == 2
\* largest day offset given to a relative-date filter
MaxDays == 1
\* largest number of keys in one filter map
MaxFilterKeys == 3

----------------------------------------------------------------------------
(* JSON values of a filter map, in one uniform shape.                      *)

IntVal(n) == [k |-> "int", n |-> n, s |-> "", l |-> {}]
BoolVal(b) == [k |-> "bool", n |-> IF b THEN 1 ELSE 0, s |-> "", l |-> {}]
StrVal(s) == [k |-> "str", n |-> 0, s |-> s, l |-> {}]
ListVal(l) == [k |-> "list", n |-> 0, s |-> "", l |-> l]

\* Python truthiness of a JSON value (if filters.get(key): ...)
Truthy(v) ==
    CASE v.k = "int" -> v.n # 0
      [] v.k = "bool" -> v.n = 1
      [] v.k = "str" -> v.s # ""
      [] v.k = "list" -> v.l # {}

\* the empty filter map
NoFilters == [x \in {} |-> IntVal(0)]

----------------------------------------------------------------------------
(* Strings whose characters matter (names, partial matches).               *)

Chars(s) ==
    CASE s = "Work" -> <<"W", "o", "r", "k">>
      [] s = "work" -> <<"w", "o", "r", "k">>
      [] s = "WORK" -> <<"W", "O", "R", "K">>
      [] s = "or" -> <<"o", "r">>
      [] s = "Home" -> <<"H", "o", "m", "e">>
      [] s = "Inbox" -> <<"I", "n", "b", "o", "x">>
      [] s = "inbox" -> <<"i", "n", "b", "o", "x">>
      [] s = "Work Projects" -> <<"W", "o", "r", "k", " ", "P", "r", "o", "j">>
      [] s = "Office Work" -> <<"O", "f", "f", " ", "W", "o", "r", "k">>
      [] s = "me" -> <<"m", "e">>
      [] s = "" -> <<>>
      [] OTHER -> <<s>>

LowerChar(c) ==
    CASE c = "W" -> "w"
      [] c = "O" -> "o"
      [] c = "R" -> "r"
      [] c = "K" -> "k"
      [] c = "H" -> "h"
      [] c = "I" -> "i"
      [] c = "P" -> "p"
      [] OTHER -> c

\* str.lower() / String.prototype.toLowerCase()
Lower(cs) == [i \in 1..Len(cs) |-> LowerChar(cs[i])]

\* String.prototype.includes()
Includes(hay, needle) ==
    \E i \in 0..(Len(hay) - Len(needle)) :
        \A j \in 1..Len(needle) : hay[i + j] = needle[j]

----------------------------------------------------------------------------
(* The store: the snapshot of the OmniFocus database a script reads.       *)

Null == "null"
NoDate == {}
At(d) == {d}

\* instants (in ticks; 0 is the start of the current day) used as dates
DateRange == (0 - TicksPerDay)..((MaxDays + 2) * TicksPerDay)

TaskStatusNames ==
    {"Available", "Blocked", "Completed", "Dropped", "DueSoon", "Next", "Overdue"}
ProjectStatusNames == {"Active", "Done", "Dropped", "OnHold"}

BaseTask(id, status, flagged, tags, note, project) ==
    [id |-> id, type |-> "task", name |-> id, taskStatus |-> status,
     status |-> "undefined", completed |-> (status = "Completed"),
     flagged |-> flagged, sequential |-> "undefined", tags |-> tags, note |-> note,
     dueDate |-> NoDate, deferDate |-> NoDate, plannedDate |-> NoDate,
     containingProject |-> project, folder |-> Null]

\* one task per instant of DateRange, carrying that instant in its dates
ProbeTask(i) ==
    LET d == (0 - TicksPerDay) + (i - 1)
    IN  [BaseTask("D", "Available", "false", {}, "", "P5")
            EXCEPT !.id = "D" \o ToString(i), !.name = "D" \o ToString(i),
                   !.dueDate = At(d),
                   !.deferDate = IF d % 2 = 0 THEN At(d) ELSE NoDate,
                   !.plannedDate = At(d + 1)]

FixedTasks ==
    << BaseTask("T1", "Available", "true", {"urgent"}, "text", "P1"),
       BaseTask("T2", "Completed", "true", {"home"}, "", "P1"),
       BaseTask("T3", "Dropped", "false", {"urgent"}, " ", "P1"),
       BaseTask("T4", "Next", "false", {}, "none", Null),
       [BaseTask("T5", "DueSoon", "true", {"urgent", "work"}, "text", "P2")
            EXCEPT !.dueDate = At(1), !.deferDate = At(0 - 1)],
       BaseTask("T6", "Blocked", "false", {"work"}, "text", "P4") >>

flattenedTasks == FixedTasks \o [i \in 1..Cardinality(DateRange) |-> ProbeTask(i)]

Project(id, name, status, taskStatus, flagged, tags, note, folder, due, defer) ==
    [id |-> id, type |-> "project", name |-> name, taskStatus |-> taskStatus,
     status |-> status, completed |-> (status = "Done"),
     flagged |-> flagged, sequential |-> flagged, tags |-> tags, note |-> note,
     dueDate |-> due, deferDate |-> defer, plannedDate |-> NoDate,
     containingProject |-> Null, folder |-> folder]

flattenedProjects ==
    << Project("P1", "Work", "Active", "Available", "true", {"work"}, "text", "F1",
               At(1), NoDate),
       [Project("P2", "Home", "OnHold", "Blocked", "false", {"home"}, "", "F2",
                NoDate, At(0)) EXCEPT !.sequential = "true"],
       Project("P3", "Work Projects", "Done", "Completed", "false", {"work"}, " ",
               "F1", At(TicksPerDay), At(0 - 1)),
       Project("P4", "Office Work", "Dropped", "Dropped", "true", {"urgent"}, "text",
               Null, At(0), At(TicksPerDay)),
       Project("P5", "Inbox", "Active", "Next", "false", {}, "none", Null,
               At(2 * TicksPerDay), At(1)),
       Project("P6", "Home", "Active", "Overdue", "false", {"urgent", "home"}, "text",
               "F3", At(TicksPerDay + 1), NoDate) >>

Folder(id, name, parent) ==
    [id |-> id, type |-> "folder", name |-> name, taskStatus |-> "undefined",
     status |-> "undefined", completed |-> FALSE,
     flagged |-> "undefined", sequential |-> "undefined", tags |-> {}, note |-> "none",
     dueDate |-> NoDate, deferDate |-> NoDate, plannedDate |-> NoDate,
     containingProject |-> Null, folder |-> Null, parent |-> parent]

flattenedFolders ==
    << Folder("F1", "Work", Null),
       Folder("F2", "Home", "F1"),
       Folder("F3", "Work Projects", "F2"),
       Folder("F4", "Office Work", Null) >>

Range(seq) == {seq[i] : i \in 1..Len(seq)}

\* the project a task belongs to (item.containingProject), or Null
ProjectById(id) ==
    IF \E p \in Range(flattenedProjects) : p.id = id
    THEN CHOOSE p \in Range(flattenedProjects) : p.id = id
    ELSE Null

----------------------------------------------------------------------------
(* query.py: the script query_omnifocus generates.                         *)

\* the filter keys _build_filter_conditions looks at, in the order in which
\* it appends their conditions
QueryFilterKeys ==
    << "project_id", "project_name", "folder_id", "tags", "status", "flagged",
       "due_within", "deferred_until", "planned_within", "has_note" >>

\* keys guarded by `if filters.get(key):` (the others by `is not None`)
TruthinessGuarded == {"project_id", "project_name", "folder_id", "tags", "status"}

\* whether a key of the filter map contributes a condition to the script
ConditionEmitted(filters, key) ==
    /\ key \in DOMAIN filters
    /\ (key \in TruthinessGuarded => Truthy(filters[key]))

Cond(key, arg) == [key |-> key, arg |-> arg]

_build_filter_conditions(entity, filters) ==
    LET emitted == SelectSeq(QueryFilterKeys, LAMBDA k : ConditionEmitted(filters, k))
    IN  [i \in 1..Len(emitted) |-> Cond(emitted[i], filters[emitted[i]])]

completed_filter_TasksOnly(entity, include_completed) ==
    IF include_completed THEN <<>>
    ELSE IF entity = "tasks" THEN << Cond("completed_task", BoolVal(TRUE)) >>
    ELSE <<>>

\* the completed/dropped check placed in front of the user filters
completed_filter(entity, include_completed) ==
    IF include_completed THEN <<>>
    ELSE IF entity = "tasks" THEN << Cond("completed_task", BoolVal(TRUE)) >>
    ELSE IF entity = "projects" THEN << Cond("completed_project", BoolVal(TRUE)) >>
    ELSE <<>>

\* default_fields of _build_field_mapper
default_fields(entity) ==
    IF entity = "tasks"
    THEN {"id", "name", "taskStatus", "flagged", "dueDate", "deferDate", "projectName",
          "tagNames"}
    ELSE IF entity = "projects"
    THEN {"id", "name", "status", "sequential", "dueDate", "deferDate", "folderName",
          "taskCount"}
    ELSE {"id", "name", "projectCount"}

\* fieldsToInclude: `fields if fields else default_fields` ({} stands for None or [])
_build_field_mapper(entity, fields) ==
    IF fields # {} THEN fields ELSE default_fields(entity)

\* sort_logic: nothing for a falsy sort_by ("" stands for None), else the
\* property read from both items and the direction of the comparison
SortLogic(sort_by, sort_order) ==
    [sorts |-> sort_by # "",
     by |-> sort_by,
     direction |-> IF sort_order = "desc" THEN -1 ELSE 1]

\* limit = NoLimit stands for None
NoLimit == -1

\* the body of the items.filter callback and the stages after it
BuildQueryScript(entity, filters, fields, limit, sort_by, sort_order, include_completed, summary) ==
    [tool |-> "query_omnifocus",
     entity |-> entity,
     checks |-> completed_filter(entity, include_completed)
                    \o _build_filter_conditions(entity, filters),
     sort |-> SortLogic(sort_by, sort_order),
     limit |-> limit,
     summary |-> summary,
     fieldsToInclude |-> _build_field_mapper(entity, fields)]

----------------------------------------------------------------------------
(* OmniJS: what the generated script does when OmniFocus evaluates it.     *)

\* names a condition declares with const directly in the callback body
ConstNames(key) ==
    CASE key = "tags" -> {"filterTags", "itemTagNames"}
      [] key = "status" -> {"filterStatuses"}
      [] key = "due_within" -> {"now", "futureDate"}
      [] key = "deferred_until" -> {"now", "futureDate"}
      [] key = "planned_within" -> {"plannedNow", "plannedFutureDate"}
      [] OTHER -> {}

\* a const declared twice in one block: the script does not parse
Redeclares(checks) ==
    \E i, j \in 1..Len(checks) :
        /\ i < j
        /\ ConstNames(checks[i].key) \cap ConstNames(checks[j].key) # {}

HasDate(d) == d # NoDate
DateOf(d) == CHOOSE x \in d : TRUE

\* futureDate.setDate(futureDate.getDate() + n), starting from new Date()
FutureDate(clock, n) == clock + n * TicksPerDay

\* taskStatusMap[item.taskStatus]; undefined when the item has none
taskStatusMap(item) == item.taskStatus

\* item.note && item.note.trim() !== ""
NoteNonBlank(item) == item.note \notin {"none", "", " "}

TagsCondition_Every(filterTags, itemTagNames) ==
    \A ft \in filterTags : ft \in itemTagNames

\* filterTags.some(ft => itemTagNames.includes(ft))
TagsCondition(filterTags, itemTagNames) ==
    \E ft \in filterTags : ft \in itemTagNames

\* one condition of the callback: TRUE when it does not `return false`
ConditionPasses(c, item, clock) ==
    CASE c.key = "completed_task" ->
            ~(item.taskStatus = "Completed" \/ item.taskStatus = "Dropped")
      [] c.key = "completed_project" ->
            ~(item.status = "Done" \/ item.status = "Dropped")
      [] c.key = "project_id" ->
            ~(item.containingProject = Null \/ item.containingProject # c.arg.s)
      [] c.key = "project_name" ->
            IF item.containingProject # Null
            THEN Includes(Lower(Chars(ProjectById(item.containingProject).name)),
                          Lower(Chars(c.arg.s)))
            ELSE Lower(Chars(c.arg.s)) = Chars("inbox")
      [] c.key = "folder_id" ->
            ~(item.folder = Null \/ item.folder # c.arg.s)
      [] c.key = "tags" -> TagsCondition(c.arg.l, item.tags)
      [] c.key = "status" ->
            taskStatusMap(item) \in c.arg.l
      [] c.key = "flagged" ->
            item.flagged = (IF Truthy(c.arg) THEN "true" ELSE "false")
      [] c.key = "due_within" ->
            /\ HasDate(item.dueDate)
            /\ ~(DateOf(item.dueDate) > FutureDate(clock, c.arg.n)
                 \/ DateOf(item.dueDate) < clock)
      [] c.key = "deferred_until" ->
            /\ HasDate(item.deferDate)
            /\ ~(DateOf(item.deferDate) > FutureDate(clock, c.arg.n))
      [] c.key = "planned_within" ->
            /\ HasDate(item.plannedDate)
            /\ ~(DateOf(item.plannedDate) > FutureDate(clock, c.arg.n)
                 \/ DateOf(item.plannedDate) < clock)
      [] c.key = "has_note" ->
            IF Truthy(c.arg) THEN NoteNonBlank(item) ELSE ~NoteNonBlank(item)

\* the callback when the block of has_note ends with `return true`: the
\* conditions placed after it are never reached
CallbackPasses_HasNoteReturns(checks, item, clock) ==
    LET stops == {i \in 1..Len(checks) : checks[i].key = "has_note"}
        last == IF stops = {} THEN Len(checks)
                ELSE CHOOSE i \in stops : \A j \in stops : i <= j
    IN  \A i \in 1..last : ConditionPasses(checks[i], item, clock)

\* the items.filter callback: every condition in turn, then `return true`
CallbackPasses(checks, item, clock) ==
    \A i \in 1..Len(checks) : ConditionPasses(checks[i], item, clock)

ItemsOf(entityType) ==
    IF entityType = "tasks" THEN flattenedTasks
    ELSE IF entityType = "projects" THEN flattenedProjects
    ELSE IF entityType = "folders" THEN flattenedFolders
    ELSE <<>>

\* `if limit:` in Python, then filtered.slice(0, limit)
LimitLogic(seq, limit) ==
    IF limit > 0 /\ limit < Len(seq) THEN SubSeq(seq, 1, limit) ELSE seq

Ids(seq) == [i \in 1..Len(seq) |-> seq[i].id]

\* a.{sort_by} after `instanceof Date -> getTime()`: {} for null or undefined,
\* else the number the comparison uses (a boolean compares as 0 or 1)
SortValue(item, by) ==
    CASE by = "dueDate" -> item.dueDate
      [] by = "deferDate" -> item.deferDate
      [] by = "plannedDate" -> item.plannedDate
      [] by = "flagged" ->
            IF item.flagged = "true" THEN {1}
            ELSE IF item.flagged = "false" THEN {0} ELSE {}
      [] OTHER -> {}

Compare_NullsByDirection(sort, a, b) ==
    LET aVal == SortValue(a, sort.by)
        bVal == SortValue(b, sort.by)
    IN  IF aVal = {} THEN sort.direction
        ELSE IF bVal = {} THEN 0 - sort.direction
        ELSE IF DateOf(aVal) < DateOf(bVal) THEN 0 - sort.direction
        ELSE IF DateOf(aVal) > DateOf(bVal) THEN sort.direction
        ELSE 0

\* the comparator given to filtered.sort
Compare(sort, a, b) ==
    LET aVal == SortValue(a, sort.by)
        bVal == SortValue(b, sort.by)
    IN  IF aVal = {} THEN 1
        ELSE IF bVal = {} THEN -1
        ELSE IF DateOf(aVal) < DateOf(bVal) THEN 0 - sort.direction
        ELSE IF DateOf(aVal) > DateOf(bVal) THEN sort.direction
        ELSE 0

\* The comparator answers 1 for two nulls in either order, so it is not a
\* consistent comparator and the order Array.prototype.sort produces is left
\* to the engine. An engine is modelled by the order in which its insertion
\* step hands the new element and an already placed one to the comparator.
SortEngines == {"new-placed", "placed-new"}

\* whether the new element x goes somewhere before the placed element y
GoesBefore(sort, engine, x, y) ==
    IF engine = "new-placed" THEN Compare(sort, x, y) < 0
    ELSE Compare(sort, y, x) > 0

\* x is moved in front of the longest tail of `placed` whose elements all
\* have x before them
RECURSIVE InsertSorted(_, _, _, _)
InsertSorted(sort, engine, x, placed) ==
    IF placed # <<>> /\ GoesBefore(sort, engine, x, placed[Len(placed)])
    THEN Append(InsertSorted(sort, engine, x, SubSeq(placed, 1, Len(placed) - 1)),
                placed[Len(placed)])
    ELSE Append(placed, x)

RECURSIVE SortedPrefix(_, _, _, _)
SortedPrefix(sort, engine, seq, n) ==
    IF n = 0 THEN <<>>
    ELSE InsertSorted(sort, engine, seq[n], SortedPrefix(sort, engine, seq, n - 1))

\* filtered.sort(comparator), when sort_logic is in the script
Sort(sort, engine, seq) ==
    IF sort.sorts THEN SortedPrefix(sort, engine, seq, Len(seq)) ELSE seq

\* the cases of the switch in mapItem
MapItemCases ==
    {"id", "name", "note", "flagged", "taskStatus", "status", "dueDate", "deferDate",
     "plannedDate", "effectiveDueDate", "effectiveDeferDate", "effectivePlannedDate",
     "completionDate", "estimatedMinutes", "tagNames", "projectName", "projectId",
     "folderName", "folderId", "sequential", "taskCount", "projectCount", "parentId",
     "hasChildren", "inInbox", "modificationDate", "modified", "creationDate", "added"}

\* the key of `result` a case assigns
ResultKey(field) ==
    CASE field = "modified" -> "modificationDate"
      [] field = "added" -> "creationDate"
      [] OTHER -> field

\* the keys of mapItem(item): the same for every item of one response
mapItem(fieldsToInclude) ==
    {ResultKey(field) : field \in fieldsToInclude \cap MapItemCases}

\* a response; `filtered` is the script's list of matches when it returns and
\* itemKeys the keys each of its items carries
Response(kind, error, filtered, hasItems, itemKeys) ==
    [kind |-> kind, error |-> error, filtered |-> filtered,
     count |-> Len(filtered), hasItems |-> hasItems,
     items |-> IF hasItems THEN filtered ELSE <<>>,
     itemKeys |-> IF hasItems THEN itemKeys ELSE {}]

ErrorResponse(error) == Response("error", error, <<>>, FALSE, {})
NoResponse == Response("none", "", <<>>, FALSE, {})

\* the value the script hands back through the bridge
EvaluateQuery(script, clock, engine) ==
    IF Redeclares(script.checks) THEN ErrorResponse("SyntaxError")
    ELSE
        LET filtered == SelectSeq(ItemsOf(script.entity),
                            LAMBDA item : CallbackPasses(script.checks, item, clock))
            sorted == Sort(script.sort, engine, filtered)
            limited == LimitLogic(sorted, script.limit)
        IN  Response("ok", "", Ids(limited), ~script.summary,
                     mapItem(script.fieldsToInclude))

----------------------------------------------------------------------------
(* Inputs of the tool calls.                                               *)

Entities == {"tasks", "projects", "folders"}
DayOffsets == {IntVal(n) : n \in 0..MaxDays}

\* the values tried for each filter key of query_omnifocus
QueryKeyValues == [key \in Range(QueryFilterKeys) |->
    CASE key = "project_id" -> {StrVal("P1")}
      [] key = "project_name" -> {StrVal("WORK"), StrVal("inbox")}
      [] key = "folder_id" -> {StrVal("F1")}
      [] key = "tags" -> {ListVal({}), ListVal({"urgent"}), ListVal({"urgent", "work"})}
      [] key = "status" -> {ListVal({"Active"}), ListVal({"Available", "Next"}),
                            ListVal({"Dropped", "OnHold"}), ListVal({"Completed", "Done"})}
      [] key = "flagged" -> {BoolVal(TRUE), BoolVal(FALSE)}
      [] key = "due_within" -> DayOffsets
      [] key = "deferred_until" -> DayOffsets
      [] key = "planned_within" -> DayOffsets
      [] key = "has_note" -> {BoolVal(TRUE), BoolVal(FALSE)}]

\* all maps over at most MaxFilterKeys of the first n keys of keySeq
RECURSIVE MapsOver(_, _, _)
MapsOver(keySeq, n, values) ==
    IF n = 0 THEN {NoFilters}
    ELSE LET smaller == MapsOver(keySeq, n - 1, values)
         IN  smaller \cup
             {f @@ (keySeq[n] :> v) :
                 f \in {g \in smaller : Cardinality(DOMAIN g) < MaxFilterKeys},
                 v \in values[keySeq[n]]}

QueryFilterMaps == MapsOver(QueryFilterKeys, Len(QueryFilterKeys), QueryKeyValues)

QueryLimits == {NoLimit, 0, 2}

\* sort_by ("" stands for None) and sort_order
SortFields == {"", "dueDate", "deferDate", "flagged", "estimatedMinutes"}
SortOrders == {"asc", "desc"}

\* fields ({} stands for None or [])
QueryFieldLists == {{}, {"name", "dueDate"}, {"id", "type", "modified", "bogus"}}

\* the filter maps tried together with limit, sort_by, sort_order and fields
QuerySmallMaps == {f \in QueryFilterMaps : Cardinality(DOMAIN f) <= 1}

----------------------------------------------------------------------------
(* The tool calls.                                                         *)

NoCall == [tool |-> "none"]
NothingSent == [tool |-> "none"]

Init ==
    /\ now = 0
    /\ pc = "idle"
    /\ call = NoCall
    /\ sent = NothingSent
    /\ spawned = 0
    /\ result = NoResponse

\* time passes between tool calls, within the current day
Tick ==
    /\ pc = "idle"
    /\ now' = (now + 1) % TicksPerDay
    /\ UNCHANGED <<pc, call, sent, spawned, result>>

\* query_omnifocus up to `await execute_omnijs(script)`
QueryOmnifocus(entity, filters, fields, limit, sort_by, sort_order, include_completed, summary) ==
    /\ pc = "idle"
    /\ call' = [tool |-> "query_omnifocus", entity |-> entity, filters |-> filters,
                fields |-> fields, limit |-> limit, sort_by |-> sort_by,
                sort_order |-> sort_order, include_completed |-> include_completed,
                summary |-> summary]
    /\ sent' = BuildQueryScript(entity, filters, fields, limit, sort_by, sort_order,
                                include_completed, summary)
    /\ pc' = "bridge"
    /\ spawned' = 0
    /\ UNCHANGED <<now, result>>

\* OmniFocus evaluates the script of a query_omnifocus call
EvaluateQueryScript ==
    /\ pc = "bridge"
    /\ sent.tool = "query_omnifocus"
    /\ spawned' = spawned + 1
    /\ \E engine \in SortEngines : result' = EvaluateQuery(sent, now, engine)
    /\ pc' = "done"
    /\ UNCHANGED <<now, call, sent>>

\* the caller takes the response; the next call starts afresh
Return ==
    /\ pc = "done"
    /\ pc' = "idle"
    /\ call' = NoCall
    /\ sent' = NothingSent
    /\ spawned' = 0
    /\ result' = NoResponse
    /\ UNCHANGED now

CallQuery ==
    /\ pc = "idle"
    /\ \E entity \in Entities, filters \in QueryFilterMaps, include_completed \in BOOLEAN :
        \/ QueryOmnifocus(entity, filters, {}, NoLimit, "", "asc", include_completed, FALSE)
        \/ /\ filters \in QuerySmallMaps
           /\ \E limit \in QueryLimits, summary \in BOOLEAN, fields \in QueryFieldLists,
                 sort_by \in SortFields, sort_order \in SortOrders :
                QueryOmnifocus(entity, filters, fields, limit, sort_by, sort_order,
                               include_completed, summary)

Next ==
    \/ Tick
    \/ CallQuery
    \/ EvaluateQueryScript
    \/ Return

Spec == Init /\ [][Next]_vars

----------------------------------------------------------------------------
(* dates.py: natural-language dates and preprocess_date_filters.           *)

\* the strings tried as values of date filters; the ISO ones are the day
\* after tomorrow, as a date and as a date with a time of day
IsoStrings == {"2026-11-08", "2026-11-08T12:00:00"}
NumericStrings == {"3"}
DateStrings ==
    {"today", "tomorrow", "yesterday", "not a valid date xyz", ""}
        \cup IsoStrings \cup NumericStrings

\* datetime.fromisoformat(value), for the strings it accepts
fromisoformat(value) ==
    IF value = "2026-11-08" THEN 2 * TicksPerDay ELSE 2 * TicksPerDay + 1

\* dateparser.parse(value, RELATIVE_BASE = now): the datetimes the library may
\* answer, NoDate standing for None.  The library is not part of the
\* repository; its answer for a bare number is left open.
dateparser_parse(value, clock) ==
    CASE value = "today" -> {At(clock)}
      [] value = "tomorrow" -> {At(clock + TicksPerDay)}
      [] value = "yesterday" -> {At(clock - TicksPerDay)}
      [] value \in NumericStrings ->
            {NoDate} \cup {At(clock + d * TicksPerDay) : d \in 0..(MaxDays + 1)}
      [] OTHER -> {NoDate}

\* the possible results of parse_natural_date for a string
parse_natural_date(value, clock) ==
    IF value = "" THEN {NoDate}
    ELSE IF value \in IsoStrings THEN {At(fromisoformat(value))}
    ELSE dateparser_parse(value, clock)

\* one resolution of every string, the library's open answers chosen
Parsers(clock) ==
    {[v \in DateStrings |->
        IF v \in NumericStrings THEN o
        ELSE CHOOSE x \in parse_natural_date(v, clock) : TRUE] :
            o \in UNION {parse_natural_date(v, clock) : v \in NumericStrings}}

\* (parsed.date() - date.today()).days
DaysFromToday(parsed, clock) ==
    (DateOf(parsed) \div TicksPerDay) - (clock \div TicksPerDay)

_DAYS_FILTERS == {"due_within", "deferred_until", "planned_within"}

\* the keys the loop of preprocess_date_filters parses
ParsedKeys(filters) ==
    {key \in _DAYS_FILTERS \cap DOMAIN filters : filters[key].k = "str"}

\* the map the loop leaves behind
ProcessedMap(filters, parser, clock) ==
    LET kept == {key \in DOMAIN filters :
                    key \in ParsedKeys(filters) => HasDate(parser[filters[key].s])}
    IN  [key \in kept |->
            IF key \in ParsedKeys(filters)
            THEN IntVal(DaysFromToday(parser[filters[key].s], clock))
            ELSE filters[key]]

preprocess_date_filters_InPlace(filters, parser, clock) ==
    IF filters = NoFilters
    THEN [returned |-> filters, argument |-> filters]
    ELSE [returned |-> ProcessedMap(filters, parser, clock),
          argument |-> ProcessedMap(filters, parser, clock)]

\* preprocess_date_filters: the map it returns and the caller's map as the
\* call leaves it (the loop works on filters.copy())
preprocess_date_filters(filters, parser, clock) ==
    IF filters = NoFilters
    THEN [returned |-> filters, argument |-> filters]
    ELSE [returned |-> ProcessedMap(filters, parser, clock),
          argument |-> filters]

----------------------------------------------------------------------------
(* validation.py: the valid filter keys of each entity kind.               *)

TASK_FILTER_KEYS ==
    {"item_ids", "project_id", "project_name", "flagged", "tags", "status",
     "due_within", "due_after", "due_before", "deferred_until", "deferred_on",
     "planned_within", "has_note", "completed_within", "completed_after",
     "completed_before", "modified_before"}

PROJECT_FILTER_KEYS ==
    {"item_ids", "folder_id", "status", "available", "flagged", "sequential",
     "tags", "due_within", "due_after", "due_before", "deferred_until",
     "deferred_on", "has_note", "modified_before", "was_deferred", "stalled"}

AllowedKeys(entity_type) ==
    IF entity_type = "tasks" THEN TASK_FILTER_KEYS ELSE PROJECT_FILTER_KEYS

\* validate_filters: the ValueError it raises, or a pass
validate_filters(filters, entity_type) ==
    IF filters = NoFilters \/ DOMAIN filters \subseteq AllowedKeys(entity_type)
    THEN [raised |-> FALSE, unknown |-> {}, valid |-> {}]
    ELSE [raised |-> TRUE,
          unknown |-> DOMAIN filters \ AllowedKeys(entity_type),
          valid |-> AllowedKeys(entity_type)]

----------------------------------------------------------------------------
(* search.py, browse.py, response.py: the parameterized tools.             *)

\* def execute_omnijs_with_params(script_name, params)
execute_omnijs_with_params_Parameters == {"script_name", "params"}

\* omnijs_json_response: the call execute_omnijs_with_params(script_name,
\* params, includes=includes) inside try/except Exception
omnijs_json_response(script_name, params) ==
    IF {"script_name", "params", "includes"} \subseteq execute_omnijs_with_params_Parameters
    THEN [started |-> TRUE, response |-> NoResponse]
    ELSE [started |-> FALSE, response |-> ErrorResponse("TypeError")]

SearchParams(entity, processed_filters, include_completed) ==
    [entity |-> entity,
     filters |-> processed_filters,
     task_filters |-> NoFilters,
     include_completed |-> include_completed \/ "completed_within" \in DOMAIN processed_filters]

BrowseParams(filters, task_filters, include_completed) ==
    [entity |-> "tree",
     filters |-> filters,
     task_filters |-> task_filters,
     include_completed |-> include_completed]

\* the values tried for the filter keys of search, browse and
\* preprocess_date_filters
SearchFilterKeys ==
    << "due_within", "deferred_until", "planned_within", "deferred_on",
       "completed_within", "modified_before", "flagged", "bogus_key" >>

SearchKeyValues == [key \in Range(SearchFilterKeys) |->
    CASE key = "due_within" ->
            {IntVal(1), StrVal("tomorrow"), StrVal("not a valid date xyz"),
             StrVal("3"), StrVal("2026-11-08"), StrVal("")}
      [] key = "deferred_until" ->
            {IntVal(0), StrVal("yesterday"), StrVal("not a valid date xyz"), StrVal("3")}
      [] key = "planned_within" ->
            {IntVal(1), StrVal("today"), StrVal("not a valid date xyz"),
             StrVal("2026-11-08T12:00:00")}
      [] key = "deferred_on" -> {IntVal(0), StrVal("tomorrow")}
      [] key = "completed_within" -> {IntVal(1), StrVal("tomorrow")}
      [] key = "modified_before" -> {IntVal(1), StrVal("3")}
      [] key = "flagged" -> {BoolVal(TRUE)}
      [] key = "bogus_key" -> {IntVal(1)}]

SearchFilterMaps == MapsOver(SearchFilterKeys, Len(SearchFilterKeys), SearchKeyValues)

SmallFilterMaps == {f \in SearchFilterMaps : Cardinality(DOMAIN f) <= 1}

\* a direct call of preprocess_date_filters
Preprocess(filters, parser) ==
    /\ pc = "idle"
    /\ LET out == preprocess_date_filters(filters, parser, now)
       IN  /\ call' = [tool |-> "preprocess_date_filters", given |-> filters,
                       filters |-> out.argument, parser |-> parser]
           /\ result' = [kind |-> "returned", filters |-> out.returned]
    /\ pc' = "done"
    /\ UNCHANGED <<now, sent, spawned>>

\* the search tool
Search(entity, filters, include_completed, parser) ==
    /\ pc = "idle"
    /\ LET out == preprocess_date_filters(filters, parser, now)
           params == SearchParams(entity, out.returned, include_completed)
           bridge == omnijs_json_response("search", params)
       IN  /\ call' = [tool |-> "search", entity |-> entity, given |-> filters,
                       filters |-> out.argument, parser |-> parser,
                       include_completed |-> include_completed]
           /\ sent' = [tool |-> "search", params |-> params]
           /\ result' = bridge.response
           /\ pc' = IF bridge.started THEN "bridge" ELSE "done"
    /\ UNCHANGED <<now, spawned>>

\* the browse tool
Browse(filters, task_filters, include_completed) ==
    /\ pc = "idle"
    /\ LET params == BrowseParams(filters, task_filters, include_completed)
           bridge == omnijs_json_response("browse", params)
       IN  /\ call' = [tool |-> "browse", given |-> filters,
                       given_task_filters |-> task_filters,
                       include_completed |-> include_completed]
           /\ sent' = [tool |-> "browse", params |-> params]
           /\ result' = bridge.response
           /\ pc' = IF bridge.started THEN "bridge" ELSE "done"
    /\ UNCHANGED <<now, spawned>>

\* def search(entity, filters, fields, limit, sort_by, sort_order,
\* include_completed, summary)
search_Parameters ==
    {"entity", "filters", "fields", "limit", "sort_by", "sort_order",
     "include_completed", "summary"}

\* the keys of the parameter object search hands to omnijs_json_response
SearchParamKeys ==
    {"entity", "filters", "fields", "limit", "sort_by", "sort_order",
     "include_completed", "summary"}

\* keyword arguments a caller may add to search(entity=...)
SearchKeywordSets ==
    {[x \in {} |-> ""],
     [x \in {"group_by"} |-> "folderName"],
     [x \in {"group_by", "aggregations"} |->
         IF x = "group_by" THEN "status" ELSE "{count: count}"],
     [x \in {"sort_by"} |-> "name"]}

\* search called with keyword arguments: Python raises TypeError at the call
\* for a keyword the function does not declare, before its body runs
SearchWithKeywords(entity, keywords) ==
    /\ pc = "idle"
    /\ call' = [tool |-> "search", entity |-> entity, given |-> NoFilters,
                filters |-> NoFilters, keywords |-> keywords,
                include_completed |-> FALSE]
    /\ IF DOMAIN keywords \subseteq search_Parameters
       THEN LET params == SearchParams(entity, NoFilters, FALSE)
                bridge == omnijs_json_response("search", params)
            IN  /\ sent' = [tool |-> "search", params |-> params,
                            keys |-> SearchParamKeys,
                            forwarded |-> [k \in DOMAIN keywords \cap SearchParamKeys |->
                                              keywords[k]]]
                /\ result' = bridge.response
                /\ pc' = IF bridge.started THEN "bridge" ELSE "done"
       ELSE /\ sent' = NothingSent
            /\ result' = [kind |-> "raised", error |-> "TypeError"]
            /\ pc' = "done"
    /\ UNCHANGED <<now, spawned>>

CallSearchWithKeywords ==
    /\ pc = "idle"
    /\ \E entity \in {"tasks", "projects"}, keywords \in SearchKeywordSets :
          SearchWithKeywords(entity, keywords)

CallPreprocess ==
    /\ pc = "idle"
    /\ \E filters \in SearchFilterMaps, parser \in Parsers(now) :
          Preprocess(filters, parser)

CallSearch ==
    /\ pc = "idle"
    /\ \E entity \in {"tasks", "projects"}, filters \in SearchFilterMaps,
          include_completed \in BOOLEAN, parser \in Parsers(now) :
          Search(entity, filters, include_completed, parser)

CallBrowse ==
    /\ pc = "idle"
    /\ \E filters \in SmallFilterMaps, task_filters \in SmallFilterMaps,
          include_completed \in BOOLEAN :
          Browse(filters, task_filters, include_completed)

NextSearch ==
    \/ Tick
    \/ CallPreprocess
    \/ CallSearch
    \/ CallSearchWithKeywords
    \/ CallBrowse
    \/ Return

SpecSearch == Init /\ [][NextSearch]_vars

----------------------------------------------------------------------------
(* tree.py: the script get_tree generates.                                 *)

TreeFilterKeys ==
    << "status", "flagged", "sequential", "tags", "due_within", "deferred_until",
       "has_note" >>

\* status[0].upper() + status[1:], for the status names given as input
status_upper(status) ==
    CASE status = "active" -> "Active"
      [] status = "completed" -> "Completed"
      [] status = "on hold" -> "On hold"
      [] status = "on_hold" -> "On_hold"
      [] OTHER -> status

status_map ==
    [name \in {"Active", "Done", "Completed", "Dropped", "OnHold", "On Hold", "on_hold"} |->
        CASE name = "Active" -> "Active"
          [] name \in {"Done", "Completed"} -> "Done"
          [] name = "Dropped" -> "Dropped"
          [] OTHER -> "OnHold"]

\* status_map.get(status, status_map.get(status_upper, status_upper))
mapped_status(status) ==
    IF status \in DOMAIN status_map THEN status_map[status]
    ELSE IF status_upper(status) \in DOMAIN status_map
    THEN status_map[status_upper(status)]
    ELSE status_upper(status)

\* the conditions of projectPassesFilter, in the order they are appended;
\* the status list goes out as its mapped names
_build_project_filter_conditions(filters) ==
    LET emitted == SelectSeq(TreeFilterKeys, LAMBDA k : ConditionEmitted(filters, k))
    IN  [i \in 1..Len(emitted) |->
            IF emitted[i] = "status"
            THEN Cond("project_status",
                      ListVal({mapped_status(st) : st \in filters["status"].l}))
            ELSE Cond(emitted[i], filters[emitted[i]])]

tree_completed_filter(include_completed) ==
    IF include_completed THEN <<>>
    ELSE << Cond("completed_project", BoolVal(TRUE)) >>

task_completed_filter(include_completed) ==
    IF include_completed THEN <<>>
    ELSE << Cond("task_completed", BoolVal(TRUE)) >>

\* start_folder_logic: where the traversal starts ("" stands for None, and is
\* as falsy as None); a name goes into the script in lower case
StartAt(parent_id, parent_name) ==
    IF parent_id # "" THEN [by |-> "id", value |-> <<parent_id>>]
    ELSE IF parent_name # "" THEN [by |-> "name", value |-> Lower(Chars(parent_name))]
    ELSE [by |-> "roots", value |-> <<>>]

\* max_depth = -1 stands for None
BuildTreeScript(parent_id, parent_name, filters, include_completed, max_depth, include_root_projects, summary, fields, include_folders, include_projects, include_tasks) ==
    [tool |-> "get_tree",
     checks |-> tree_completed_filter(include_completed)
                    \o _build_project_filter_conditions(filters),
     taskChecks |-> task_completed_filter(include_completed),
     start |-> StartAt(parent_id, parent_name),
     maxDepth |-> max_depth,
     includeRootProjects |-> include_root_projects,
     summaryOnly |-> summary,
     requestedFields |-> fields,
     includeFolders |-> include_folders,
     includeProjects |-> include_projects,
     includeTasks |-> include_tasks]

----------------------------------------------------------------------------
(* OmniJS: the evaluation of the get_tree script.                          *)

\* folder.folders, folder.projects, project.tasks
FoldersOf(folder) == SelectSeq(flattenedFolders, LAMBDA f : f.parent = folder.id)
ProjectsOf(folder) == SelectSeq(flattenedProjects, LAMBDA q : q.folder = folder.id)
TasksOf(project) == SelectSeq(flattenedTasks, LAMBDA t : t.containingProject = project.id)

\* one condition of projectPassesFilter or taskPassesFilter
TreeConditionPasses(c, item, clock) ==
    CASE c.key = "project_status" -> item.status \in c.arg.l
      [] c.key = "sequential" ->
            item.sequential = (IF Truthy(c.arg) THEN "true" ELSE "false")
      [] c.key = "task_completed" -> ~item.completed
      [] OTHER -> ConditionPasses(c, item, clock)

projectPassesFilter(script, project, clock) ==
    \A i \in 1..Len(script.checks) : TreeConditionPasses(script.checks[i], project, clock)

taskPassesFilter(script, task, clock) ==
    \A i \in 1..Len(script.taskChecks) :
        TreeConditionPasses(script.taskChecks[i], task, clock)

TaskAllFields ==
    {"type", "id", "name", "status", "flagged", "completed", "dueDate", "deferDate",
     "estimatedMinutes", "tagNames", "note"}

ProjectAllFields ==
    {"type", "id", "name", "status", "sequential", "flagged", "dueDate", "deferDate",
     "estimatedMinutes", "taskCount", "tagNames"}

\* the fields of a node: all of them, or type and the requested ones
NodeFields(script, allFields) ==
    IF script.requestedFields = {} THEN allFields
    ELSE {"type"} \cup (script.requestedFields \cap allFields)

\* a node of the tree: `of` is the id of the entity it was made from, `fields`
\* the keys it carries, `taskCount` the value of a project's taskCount field,
\* `children` its children (folder) or its tasks (project)
Node(type, of, fields, taskCount, children) ==
    [type |-> type, of |-> of, fields |-> fields, taskCount |-> taskCount,
     children |-> children]

mapTask(script, task) ==
    Node("task", task.id, NodeFields(script, TaskAllFields), 0, <<>>)

\* the tasks of a project that taskPassesFilter lets through
PassingTasks(script, project, clock) ==
    SelectSeq(TasksOf(project), LAMBDA t : taskPassesFilter(script, t, clock))

\* mapProject; taskCount++ happens once for each task it attaches
mapProject(script, project, clock) ==
    LET tasks == IF script.includeTasks
                 THEN PassingTasks(script, project, clock) ELSE <<>>
    IN  Node("project", project.id,
             NodeFields(script, ProjectAllFields)
                 \cup (IF script.includeTasks THEN {"tasks"} ELSE {}),
             Len(TasksOf(project)),
             [i \in 1..Len(tasks) |-> mapTask(script, tasks[i])])

\* the counters projectCount, folderCount, taskCount
Counts(p, f, t) == [p |-> p, f |-> f, t |-> t]

RECURSIVE SumOf(_, _)
SumOf(seq, field) ==
    IF seq = <<>> THEN 0 ELSE Head(seq)[field] + SumOf(Tail(seq), field)

RECURSIVE Flatten(_)
Flatten(seqs) == IF seqs = <<>> THEN <<>> ELSE Head(seqs) \o Flatten(Tail(seqs))

RECURSIVE hasMatchingProjects(_, _, _)
hasMatchingProjects(script, folder, clock) ==
    \/ \E i \in 1..Len(ProjectsOf(folder)) :
          projectPassesFilter(script, ProjectsOf(folder)[i], clock)
    \/ \E i \in 1..Len(FoldersOf(folder)) :
          hasMatchingProjects(script, FoldersOf(folder)[i], clock)

PassingProjects(script, projects, clock) ==
    SelectSeq(projects, LAMBDA q : projectPassesFilter(script, q, clock))

DepthReached(script, currentDepth) ==
    script.maxDepth # -1 /\ currentDepth >= script.maxDepth

\* countProjectsInFolder: what it adds to the counters
RECURSIVE countProjectsInFolder(_, _, _, _)
countProjectsInFolder(script, folder, currentDepth, clock) ==
    IF DepthReached(script, currentDepth) THEN Counts(0, 1, 0)
    ELSE
        LET below == [i \in 1..Len(FoldersOf(folder)) |->
                        countProjectsInFolder(script, FoldersOf(folder)[i],
                                              currentDepth + 1, clock)]
            here == PassingProjects(script, ProjectsOf(folder), clock)
            tasks == [i \in 1..Len(here) |->
                        Counts(0, 0, IF script.includeTasks
                                     THEN Len(PassingTasks(script, here[i], clock))
                                     ELSE 0)]
        IN  Counts(SumOf(below, "p") + Len(here),
                   1 + SumOf(below, "f"),
                   SumOf(below, "t") + SumOf(tasks, "t"))

\* the test of buildFolderTree inverted: a child folder is pushed only when
\* it has no children and no matching projects
KeepsChild_Inverted(childTree, matching) ==
    ~(childTree.children # <<>> \/ matching)

KeepsChild_Always(childTree, matching) == TRUE

\* childTree.children.length > 0 || hasMatchingProjects(childFolder)
KeepsChild(childTree, matching) == childTree.children # <<>> \/ matching

\* buildFolderTree: the node it returns and what it adds to the counters
RECURSIVE buildFolderTree(_, _, _, _)
buildFolderTree(script, folder, currentDepth, clock) ==
    LET node == Node("folder", folder.id, {"type", "id", "name", "children"}, 0, <<>>)
    IN  IF DepthReached(script, currentDepth)
        THEN [node |-> node, p |-> 0, f |-> 1, t |-> 0]
        ELSE
            LET subfolders == IF script.includeFolders THEN FoldersOf(folder) ELSE <<>>
                built == [i \in 1..Len(subfolders) |->
                            buildFolderTree(script, subfolders[i], currentDepth + 1, clock)]
                keep == SelectSeq([i \in 1..Len(subfolders) |-> i],
                            LAMBDA i : KeepsChild(built[i].node,
                                          hasMatchingProjects(script, subfolders[i], clock)))
                here == IF script.includeProjects
                        THEN PassingProjects(script, ProjectsOf(folder), clock)
                        ELSE <<>>
                mapped == [i \in 1..Len(here) |-> mapProject(script, here[i], clock)]
                attached == [i \in 1..Len(here) |-> Counts(0, 0, Len(mapped[i].children))]
            IN  [node |-> [node EXCEPT !.children =
                              [i \in 1..Len(keep) |-> built[keep[i]].node] \o mapped],
                 p |-> SumOf(built, "p") + Len(here),
                 f |-> 1 + SumOf(built, "f"),
                 t |-> SumOf(built, "t") + SumOf(attached, "t")]

\* collectProjects: the project nodes of a folder and of all folders below
RECURSIVE collectProjects(_, _, _)
collectProjects(script, folder, clock) ==
    LET here == PassingProjects(script, ProjectsOf(folder), clock)
        mapped == [i \in 1..Len(here) |-> mapProject(script, here[i], clock)]
        below == [i \in 1..Len(FoldersOf(folder)) |->
                    collectProjects(script, FoldersOf(folder)[i], clock)]
    IN  mapped \o Flatten(below)

StartFolders_FirstPartial(script) ==
    LET byId == SelectSeq(flattenedFolders, LAMBDA f : <<f.id>> = script.start.value)
        wanted == script.start.value
        exact == SelectSeq(flattenedFolders, LAMBDA f : Lower(Chars(f.name)) = wanted)
        partial == SelectSeq(flattenedFolders,
                             LAMBDA f : Includes(Lower(Chars(f.name)), wanted))
    IN  CASE script.start.by = "roots" ->
                [found |-> TRUE, suggestions |-> <<>>,
                 folders |-> SelectSeq(flattenedFolders, LAMBDA f : f.parent = Null)]
          [] script.start.by = "id" ->
                IF byId # <<>>
                THEN [found |-> TRUE, suggestions |-> <<>>, folders |-> << byId[1] >>]
                ELSE [found |-> FALSE, suggestions |-> <<>>, folders |-> <<>>]
          [] script.start.by = "name" ->
                IF exact # <<>>
                THEN [found |-> TRUE, suggestions |-> <<>>, folders |-> << exact[1] >>]
                ELSE IF Len(partial) >= 1
                THEN [found |-> TRUE, suggestions |-> <<>>, folders |-> << partial[1] >>]
                ELSE [found |-> FALSE, suggestions |-> Ids(partial), folders |-> <<>>]

\* the start folder logic: the folders the traversal starts from, or an error
StartFolders(script) ==
    LET byId == SelectSeq(flattenedFolders, LAMBDA f : <<f.id>> = script.start.value)
        wanted == script.start.value
        exact == SelectSeq(flattenedFolders, LAMBDA f : Lower(Chars(f.name)) = wanted)
        partial == SelectSeq(flattenedFolders,
                             LAMBDA f : Includes(Lower(Chars(f.name)), wanted))
    IN  CASE script.start.by = "roots" ->
                [found |-> TRUE, suggestions |-> <<>>,
                 folders |-> SelectSeq(flattenedFolders, LAMBDA f : f.parent = Null)]
          [] script.start.by = "id" ->
                IF byId # <<>>
                THEN [found |-> TRUE, suggestions |-> <<>>, folders |-> << byId[1] >>]
                ELSE [found |-> FALSE, suggestions |-> <<>>, folders |-> <<>>]
          [] script.start.by = "name" ->
                IF exact # <<>>
                THEN [found |-> TRUE, suggestions |-> <<>>, folders |-> << exact[1] >>]
                ELSE IF Len(partial) = 1
                THEN [found |-> TRUE, suggestions |-> <<>>, folders |-> partial]
                ELSE [found |-> FALSE, suggestions |-> Ids(partial), folders |-> <<>>]

TreeResponse(kind, error, tree, hasTree, counts, hasTaskCount, suggestions) ==
    [kind |-> kind, error |-> error, tree |-> tree, hasTree |-> hasTree,
     projectCount |-> counts.p, folderCount |-> counts.f, taskCount |-> counts.t,
     hasTaskCount |-> hasTaskCount, suggestions |-> suggestions]

TreeError(error, suggestions) ==
    TreeResponse("error", error, <<>>, FALSE, Counts(0, 0, 0), FALSE, suggestions)

\* the summary branch of the script
SummaryCounts(script, rootFolders, includeRootProjects, clock) ==
    LET inFolders == [i \in 1..Len(rootFolders) |->
                        countProjectsInFolder(script, rootFolders[i], 0, clock)]
        rootProjects == IF includeRootProjects
                        THEN PassingProjects(script,
                                SelectSeq(flattenedProjects, LAMBDA q : q.folder = Null),
                                clock)
                        ELSE <<>>
        tasks == [i \in 1..Len(rootProjects) |->
                    Counts(0, 0, IF script.includeTasks
                                 THEN Len(PassingTasks(script, rootProjects[i], clock))
                                 ELSE 0)]
    IN  Counts(SumOf(inFolders, "p") + Len(rootProjects),
               SumOf(inFolders, "f"),
               SumOf(inFolders, "t") + SumOf(tasks, "t"))

\* the tree branch of the script
FullTree(script, rootFolders, includeRootProjects, clock) ==
    LET built == IF script.includeFolders
                 THEN [i \in 1..Len(rootFolders) |->
                          buildFolderTree(script, rootFolders[i], 0, clock)]
                 ELSE <<>>
        keep == SelectSeq([i \in 1..Len(built) |-> i],
                          LAMBDA i : built[i].node.children # <<>>)
        collected == IF ~script.includeFolders /\ script.includeProjects
                     THEN Flatten([i \in 1..Len(rootFolders) |->
                                      collectProjects(script, rootFolders[i], clock)])
                     ELSE <<>>
        walked == IF ~script.includeFolders /\ script.includeProjects
                  THEN Len(rootFolders) ELSE 0
        rootProjects == IF includeRootProjects /\ script.includeProjects
                        THEN PassingProjects(script,
                                SelectSeq(flattenedProjects, LAMBDA q : q.folder = Null),
                                clock)
                        ELSE <<>>
        mappedRoots == [i \in 1..Len(rootProjects) |->
                           mapProject(script, rootProjects[i], clock)]
        attached == [i \in 1..Len(collected \o mappedRoots) |->
                        Counts(0, 0, Len((collected \o mappedRoots)[i].children))]
    IN  [tree |-> [i \in 1..Len(keep) |-> built[keep[i]].node] \o collected \o mappedRoots,
         counts |-> Counts(SumOf(built, "p") + Len(collected) + Len(rootProjects),
                           SumOf(built, "f") + walked,
                           SumOf(built, "t") + SumOf(attached, "t"))]

\* the value the get_tree script hands back through the bridge
EvaluateTree(script, clock) ==
    IF Redeclares(script.checks) THEN TreeError("SyntaxError", <<>>)
    ELSE
        LET start == StartFolders(script)
            includeRootProjects == script.includeRootProjects /\ script.start.by = "roots"
        IN  IF ~start.found
            THEN TreeError("Folder not found with " \o script.start.by, start.suggestions)
            ELSE IF script.summaryOnly
            THEN TreeResponse("ok", "", <<>>, FALSE,
                              SummaryCounts(script, start.folders, includeRootProjects, clock),
                              script.includeTasks, <<>>)
            ELSE LET full == FullTree(script, start.folders, includeRootProjects, clock)
                 IN  TreeResponse("ok", "", full.tree, TRUE, full.counts,
                                  script.includeTasks, <<>>)

----------------------------------------------------------------------------
(* The get_tree tool call.                                                 *)

\* the values tried for each filter key of get_tree
TreeKeyValues == [key \in Range(TreeFilterKeys) |->
    CASE key = "status" -> {ListVal({}), ListVal({"Active"}), ListVal({"Dropped"}),
                            ListVal({"completed", "On Hold"}),
                            ListVal({"active", "on_hold"})}
      [] key = "flagged" -> {BoolVal(TRUE), BoolVal(FALSE)}
      [] key = "sequential" -> {BoolVal(TRUE), BoolVal(FALSE)}
      [] key = "tags" -> {ListVal({}), ListVal({"urgent"}), ListVal({"urgent", "work"})}
      [] key = "due_within" -> DayOffsets
      [] key = "deferred_until" -> DayOffsets
      [] key = "has_note" -> {BoolVal(TRUE), BoolVal(FALSE)}]

TreeFilterMaps == MapsOver(TreeFilterKeys, Len(TreeFilterKeys), TreeKeyValues)

\* the filter maps tried together with the traversal options
TreeOptionMaps ==
    {NoFilters, "flagged" :> BoolVal(TRUE), "status" :> ListVal({"Dropped"}),
     ("due_within" :> IntVal(0)) @@ ("deferred_until" :> IntVal(0))}

\* parent_id and parent_name ("" stands for None)
ParentIds == {"", "F2", "F9"}
ParentNames == {"", "WORK", "or", "me", "zzz"}

\* max_depth (-1 stands for None)
MaxDepths == {-1, 0, 1}

\* fields ({} stands for None or [])
FieldLists == {{}, {"name"}, {"id", "note", "taskCount"}}

\* get_tree up to `await execute_omnijs(script)`
GetTree(parent_id, parent_name, filters, include_completed, max_depth, include_root_projects, summary, fields, include_folders, include_projects, include_tasks) ==
    /\ pc = "idle"
    /\ call' = [tool |-> "get_tree", parent_id |-> parent_id,
                parent_name |-> parent_name, filters |-> filters,
                include_completed |-> include_completed, max_depth |-> max_depth,
                include_root_projects |-> include_root_projects, summary |-> summary,
                fields |-> fields, include_folders |-> include_folders,
                include_projects |-> include_projects, include_tasks |-> include_tasks]
    /\ sent' = BuildTreeScript(parent_id, parent_name, filters, include_completed,
                               max_depth, include_root_projects, summary, fields,
                               include_folders, include_projects, include_tasks)
    /\ pc' = "bridge"
    /\ spawned' = 0
    /\ UNCHANGED <<now, result>>

\* OmniFocus evaluates the script of a get_tree call
EvaluateTreeScript ==
    /\ pc = "bridge"
    /\ sent.tool = "get_tree"
    /\ spawned' = spawned + 1
    /\ result' = EvaluateTree(sent, now)
    /\ pc' = "done"
    /\ UNCHANGED <<now, call, sent>>

CallTree ==
    /\ pc = "idle"
    /\ \E include_completed \in BOOLEAN, include_tasks \in BOOLEAN, summary \in BOOLEAN :
        \/ \E filters \in TreeFilterMaps :
              GetTree("", "", filters, include_completed, -1, TRUE, summary, {},
                      TRUE, TRUE, include_tasks)
        \/ \E filters \in TreeOptionMaps, parent_id \in ParentIds,
              parent_name \in ParentNames, max_depth \in MaxDepths,
              include_root_projects \in BOOLEAN, fields \in FieldLists,
              include_folders \in BOOLEAN, include_projects \in BOOLEAN :
              GetTree(parent_id, parent_name, filters, include_completed, max_depth,
                      include_root_projects, summary, fields, include_folders,
                      include_projects, include_tasks)

NextTree ==
    \/ Tick
    \/ CallTree
    \/ EvaluateTreeScript
    \/ Return

SpecTree == Init /\ [][NextTree]_vars

----------------------------------------------------------------------------
(* omnijs.py: execute_omnijs and the tools that call it.                   *)

\* A JSON value as the caller sees it: its type, the keys of an object and
\* its text in Python's default json.dumps form.
JsonValue(t, keys, text) == [t |-> t, keys |-> keys, text |-> text]
NoJson == JsonValue("none", {}, "")

\* {"error": message}
ErrorObject(message) ==
    JsonValue("object", {"error"}, "{\"error\": \"" \o message \o "\"}")

\* {"result": result_str, "raw": True}
RawObject(result_str) ==
    JsonValue("object", {"result", "raw"},
              "{\"result\": \"" \o result_str \o "\", \"raw\": true}")

\* what osascript may write to stdout (UTF-8 text) and to stderr
Stdouts ==
    {"", "\n", " \n", "{\"count\": 0}\n", "{\"error\": \"Query error: x\"}\n",
     "[1, 2]\n", "undefined\n", "not json"}
Stderrs == {"", "execution error: OmniFocus got an error\n", "\n"}
ReturnCodes == {0, 1}

\* str.strip() on these texts
strip(text) ==
    CASE text \in {"", "\n", " \n"} -> ""
      [] text = "{\"count\": 0}\n" -> "{\"count\": 0}"
      [] text = "{\"error\": \"Query error: x\"}\n" -> "{\"error\": \"Query error: x\"}"
      [] text = "[1, 2]\n" -> "[1, 2]"
      [] text = "undefined\n" -> "undefined"
      [] text = "execution error: OmniFocus got an error\n" ->
            "execution error: OmniFocus got an error"
      [] OTHER -> text

\* json.loads: the value, or JSONDecodeError
json_loads(text) ==
    CASE text = "{\"count\": 0}" ->
            [ok |-> TRUE, value |-> JsonValue("object", {"count"}, text)]
      [] text = "{\"error\": \"Query error: x\"}" ->
            [ok |-> TRUE, value |-> JsonValue("object", {"error"}, text)]
      [] text = "[1, 2]" ->
            [ok |-> TRUE, value |-> JsonValue("array", {}, text)]
      [] OTHER -> [ok |-> FALSE, value |-> NoJson]

\* an outcome of create_subprocess_exec and proc.communicate()
ProcessOutcome(started, returncode, stdout, stderr) ==
    [started |-> started, returncode |-> returncode, stdout |-> stdout,
     stderr |-> stderr]
NoProcess == ProcessOutcome(FALSE, 0, "", "")

ProcessOutcomes ==
    {NoProcess}
        \cup {ProcessOutcome(TRUE, 0, stdout, "") : stdout \in Stdouts}
        \cup {ProcessOutcome(TRUE, 1, stdout, stderr) :
                 stdout \in {"", "{\"count\": 0}\n"}, stderr \in Stderrs}

\* what a Python call gives: a value, or an exception with its str()
Returns(value) == [raised |-> FALSE, exception |-> "", value |-> value]
Raises(message) == [raised |-> TRUE, exception |-> message, value |-> NoJson]

execute_omnijs_EmptyIsRaw(process) ==
    IF ~process.started THEN Raises("No such file or directory: osascript")
    ELSE IF process.returncode # 0
    THEN Raises("OmniJS execution failed: "
                    \o (IF strip(process.stderr) # "" THEN strip(process.stderr)
                        ELSE "Unknown error"))
    ELSE IF json_loads(strip(process.stdout)).ok
    THEN Returns(json_loads(strip(process.stdout)).value)
    ELSE Returns(RawObject(strip(process.stdout)))

\* execute_omnijs, from the start of the process to its return or raise
execute_omnijs(process) ==
    IF ~process.started THEN Raises("No such file or directory: osascript")
    ELSE IF process.returncode # 0
    THEN Raises("OmniJS execution failed: "
                    \o (IF strip(process.stderr) # "" THEN strip(process.stderr)
                        ELSE "Unknown error"))
    ELSE IF strip(process.stdout) = ""
    THEN Returns(ErrorObject("Empty result from OmniJS"))
    ELSE IF json_loads(strip(process.stdout)).ok
    THEN Returns(json_loads(strip(process.stdout)).value)
    ELSE Returns(RawObject(strip(process.stdout)))

\* try: return json.dumps(await execute_omnijs(script))
\* except Exception as e: return json.dumps({"error": str(e)})
TryExecute(process) ==
    LET outcome == execute_omnijs(process)
    IN  IF outcome.raised THEN Returns(ErrorObject(outcome.exception))
        ELSE Returns(outcome.value)

\* what a tool call gives its caller, and the process outcome it met
ToolReturn(outcome, process) ==
    [raised |-> outcome.raised, exception |-> outcome.exception,
     value |-> outcome.value, process |-> process]

\* filters["project_name"].lower() runs for every truthy value, before the try
QueryBuildRaises(filters) ==
    /\ "project_name" \in DOMAIN filters
    /\ Truthy(filters["project_name"])
    /\ filters["project_name"].k # "str"

\* `for status in status_list` runs for every truthy value, before the try
TreeBuildRaises(filters) ==
    /\ "status" \in DOMAIN filters
    /\ Truthy(filters["status"])
    /\ filters["status"].k \in {"int", "bool"}

\* filter values of several JSON types
BoundaryFilterMaps ==
    {NoFilters}
        \cup {"project_name" :> v :
                 v \in {StrVal("WORK"), StrVal(""), IntVal(5), IntVal(0), BoolVal(TRUE),
                        ListVal({"Work"}), ListVal({})}}
        \cup {"status" :> v :
                 v \in {ListVal({"Active"}), ListVal({}), StrVal("Active"), IntVal(5),
                        IntVal(0), BoolVal(TRUE), BoolVal(FALSE)}}
        \cup {"flagged" :> v : v \in {BoolVal(TRUE), StrVal("yes"), IntVal(1), ListVal({})}}

\* query_omnifocus with any filter values, up to `await execute_omnijs(script)`
\* or to the exception that leaves it
QueryOmnifocusAtBoundary(entity, filters) ==
    /\ pc = "idle"
    /\ call' = [tool |-> "query_omnifocus", entity |-> entity, filters |-> filters]
    /\ spawned' = 0
    /\ IF QueryBuildRaises(filters)
       THEN /\ pc' = "done"
            /\ sent' = NothingSent
            /\ result' = ToolReturn(Raises("AttributeError"), NoProcess)
       ELSE /\ pc' = "bridge"
            /\ sent' = BuildQueryScript(entity, filters, {}, NoLimit, "", "asc", FALSE, FALSE)
            /\ result' = NoResponse
    /\ UNCHANGED now

\* get_tree with any filter values, up to `await execute_omnijs(script)` or to
\* the exception that leaves it
GetTreeAtBoundary(filters) ==
    /\ pc = "idle"
    /\ call' = [tool |-> "get_tree", filters |-> filters]
    /\ spawned' = 0
    /\ IF TreeBuildRaises(filters)
       THEN /\ pc' = "done"
            /\ sent' = NothingSent
            /\ result' = ToolReturn(Raises("TypeError"), NoProcess)
       ELSE /\ pc' = "bridge"
            /\ sent' = BuildTreeScript("", "", filters, FALSE, -1, TRUE, FALSE, {}, TRUE,
                                       TRUE, FALSE)
            /\ result' = NoResponse
    /\ UNCHANGED now

\* the rest of the call: the process runs, or fails to start, and the tool
\* returns what execute_omnijs made of it
ExecuteOmnijs ==
    /\ pc = "bridge"
    /\ sent.tool \in {"query_omnifocus", "get_tree"}
    /\ \E process \in ProcessOutcomes :
          /\ spawned' = spawned + (IF process.started THEN 1 ELSE 0)
          /\ result' = ToolReturn(TryExecute(process), process)
    /\ pc' = "done"
    /\ UNCHANGED <<now, call, sent>>

CallAtBoundary ==
    /\ pc = "idle"
    /\ \E filters \in BoundaryFilterMaps :
          \/ \E entity \in Entities : QueryOmnifocusAtBoundary(entity, filters)
          \/ GetTreeAtBoundary(filters)

NextBridge ==
    \/ Tick
    \/ CallAtBoundary
    \/ CallSearch
    \/ ExecuteOmnijs
    \/ Return

SpecBridge == Init /\ [][NextBridge]_vars

----------------------------------------------------------------------------
(* The same query_omnifocus request issued a second time. The store is     *)
(* the same and so is the JavaScript engine; only the clock may have moved. *)

\* the caller keeps the first response and issues the same request again
QueryAgain ==
    /\ pc = "done"
    /\ call.tool = "query_omnifocus"
    /\ "first" \notin DOMAIN call
    /\ call' = call @@ [first |-> result, at |-> now]
    /\ sent' = BuildQueryScript(call.entity, call.filters, call.fields, call.limit,
                                call.sort_by, call.sort_order, call.include_completed,
                                call.summary)
    /\ pc' = "again"
    /\ spawned' = 0
    /\ result' = NoResponse
    /\ UNCHANGED now

\* time passes between the two runs, within the current day
Elapse ==
    /\ pc = "again"
    /\ now' = (now + 1) % TicksPerDay
    /\ UNCHANGED <<pc, call, sent, spawned, result>>

\* OmniFocus evaluates the script of the second run, with the engine that
\* produced the first response
EvaluateQueryAgain ==
    /\ pc = "again"
    /\ spawned' = spawned + 1
    /\ \E engine \in SortEngines :
          /\ call.first = EvaluateQuery(sent, call.at, engine)
          /\ result' = EvaluateQuery(sent, now, engine)
    /\ pc' = "done"
    /\ UNCHANGED <<now, call, sent>>

NextTwice ==
    \/ Tick
    \/ CallQuery
    \/ EvaluateQueryScript
    \/ QueryAgain
    \/ Elapse
    \/ EvaluateQueryAgain
    \/ Return

SpecTwice == Init /\ [][NextTwice]_vars

----------------------------------------------------------------------------
(* The grouped mode of the search script: filter, then partition by the    *)
(* group_by field and count (aggregate, section 4.5 of the design).        *)

\* the fields tried as group_by; "bogus" is a field no entity has
GroupByFields == {"status", "flagged", "projectId", "folderId", "bogus"}

\* the value of the group_by field of an entity; Null when null or missing
GroupKey(item, groupBy) ==
    CASE groupBy = "status" ->
            IF item.type = "task" THEN item.taskStatus ELSE item.status
      [] groupBy = "flagged" -> item.flagged
      [] groupBy = "projectId" -> item.containingProject
      [] groupBy = "folderId" -> item.folder
      [] OTHER -> Null

\* the distinct group keys of the entities, in first-seen order
RECURSIVE FirstSeenKeys(_, _)
FirstSeenKeys(entities, groupBy) ==
    IF entities = <<>> THEN <<>>
    ELSE LET before == FirstSeenKeys(SubSeq(entities, 1, Len(entities) - 1), groupBy)
             key == GroupKey(entities[Len(entities)], groupBy)
         IN  IF key \in Range(before) THEN before ELSE Append(before, key)

GroupResult(key, members) == [key |-> key, count |-> Len(members), members |-> Ids(members)]

\* partition that silently drops the entities whose key is null or missing
aggregate_SkipsNullKeys(entities, groupBy) ==
    LET keys == SelectSeq(FirstSeenKeys(entities, groupBy), LAMBDA k : k # Null)
    IN  [i \in 1..Len(keys) |->
            GroupResult(keys[i],
                SelectSeq(entities, LAMBDA item : GroupKey(item, groupBy) = keys[i]))]

\* aggregate(entities, groupBy, {count: "count"}): one group per key value,
\* the null key included, each with the number of its members
aggregate(entities, groupBy) ==
    LET keys == FirstSeenKeys(entities, groupBy)
    IN  [i \in 1..Len(keys) |->
            GroupResult(keys[i],
                SelectSeq(entities, LAMBDA item : GroupKey(item, groupBy) = keys[i]))]

GroupedResponse(groupBy, filtered, groups) ==
    [kind |-> "grouped", groupedBy |-> groupBy, filtered |-> Ids(filtered),
     groups |-> groups]

\* a grouped request reaches the script
GroupedQuery(entity, filters, group_by, include_completed) ==
    /\ pc = "idle"
    /\ call' = [tool |-> "grouped", entity |-> entity, filters |-> filters,
                group_by |-> group_by, include_completed |-> include_completed]
    /\ sent' = [tool |-> "grouped", entity |-> entity, group_by |-> group_by,
                checks |-> completed_filter(entity, include_completed)
                               \o _build_filter_conditions(entity, filters)]
    /\ pc' = "bridge"
    /\ spawned' = 0
    /\ UNCHANGED <<now, result>>

\* the script filters the collection and aggregates the matches
EvaluateGroupedQuery ==
    /\ pc = "bridge"
    /\ sent.tool = "grouped"
    /\ spawned' = spawned + 1
    /\ LET filtered == SelectSeq(ItemsOf(sent.entity),
                           LAMBDA item : CallbackPasses(sent.checks, item, now))
       IN  result' = IF Redeclares(sent.checks) THEN ErrorResponse("SyntaxError")
                     ELSE GroupedResponse(sent.group_by, filtered,
                                          aggregate(filtered, sent.group_by))
    /\ pc' = "done"
    /\ UNCHANGED <<now, call, sent>>

CallGrouped ==
    /\ pc = "idle"
    /\ \E entity \in {"tasks", "projects"}, filters \in QuerySmallMaps,
          group_by \in GroupByFields, include_completed \in BOOLEAN :
          GroupedQuery(entity, filters, group_by, include_completed)

NextGrouped ==
    \/ Tick
    \/ CallGrouped
    \/ EvaluateGroupedQuery
    \/ Return

SpecGrouped == Init /\ [][NextGrouped]_vars

----------------------------------------------------------------------------
(* edit_item.py: the AppleScript edit of a task or project and, for a      *)
(* task, the follow-up operations made through OmniJS.                     *)

\* the status to set after the edit: new_status before mark_complete; Null
\* stands for None
effective_status(item_type, new_status, mark_complete) ==
    IF item_type # "task" THEN Null
    ELSE IF new_status # Null THEN new_status
    ELSE IF mark_complete THEN "completed"
    ELSE Null

\* needs_task_id: a task with a status, parent or (truthy) position change
needs_task_id(args) ==
    /\ args.item_type = "task"
    /\ \/ effective_status(args.item_type, args.new_status, args.mark_complete) # Null
       \/ args.new_parent_id # Null
       \/ args.new_position \notin {Null, ""}

\* whether edit_item calls the helper of a follow-up step
Requested(args, step) ==
    CASE step = "status" ->
            effective_status(args.item_type, args.new_status, args.mark_complete) # Null
      [] step = "parent" -> args.new_parent_id # Null
      [] step = "position" -> args.new_position \notin {Null, ""}

\* what a follow-up adds to result_msg
Note(args, step, success) ==
    CASE step = "status" -> IF success THEN <<>> ELSE << "status change failed" >>
      [] step = "parent" ->
            IF ~success THEN << "parent change failed" >>
            ELSE IF args.new_parent_id = "" THEN << "moved to project root" >>
            ELSE << "moved to new parent" >>
      [] step = "position" ->
            IF success THEN << "repositioned" >> ELSE << "repositioning failed" >>

\* edit_item that returns result_msg as soon as a follow-up fails
StepAfter_ReturnsOnFailure(step, success) ==
    IF ~success THEN "done"
    ELSE CASE step = "status" -> "parent"
           [] step = "parent" -> "position"
           [] step = "position" -> "done"

\* where edit_item goes after a follow-up step, whatever its outcome
StepAfter(step, success) ==
    CASE step = "status" -> "parent"
      [] step = "parent" -> "position"
      [] step = "position" -> "done"

EditMessage(kind, notes) == [kind |-> kind, notes |-> notes]

\* edit_item up to the start of osascript
EditItem(args) ==
    /\ pc = "idle"
    /\ call' = [tool |-> "edit_item"] @@ args
    /\ sent' = [tool |-> "edit_item", edited |-> FALSE, attempts |-> <<>>]
    /\ spawned' = 0
    /\ IF args.id = "" /\ args.current_name = ""
       THEN /\ result' = EditMessage("Error: Either 'id' or 'current_name' must be provided", <<>>)
            /\ pc' = "done"
       ELSE /\ result' = EditMessage("none", <<>>)
            /\ pc' = "applescript"
    /\ UNCHANGED now

\* osascript runs the edit script and exits
RunAppleScript ==
    /\ pc = "applescript"
    /\ spawned' = spawned + 1
    /\ \E returncode \in ReturnCodes :
          IF returncode # 0
          THEN /\ result' = EditMessage("Error: stderr", <<>>)
               /\ pc' = "done"
               /\ UNCHANGED sent
          ELSE /\ sent' = [sent EXCEPT !.edited = TRUE]
               /\ result' = EditMessage("updated successfully", <<>>)
               /\ pc' = IF needs_task_id(call) THEN "status" ELSE "done"
    /\ UNCHANGED <<now, call>>

\* one follow-up step: the helper is awaited when the step is requested and
\* returns (success, message)
FollowUp(step) ==
    /\ pc = step
    /\ IF Requested(call, step)
       THEN \E success \in BOOLEAN :
               /\ sent' = [sent EXCEPT !.attempts =
                              Append(@, [step |-> step, success |-> success])]
               /\ result' = [result EXCEPT !.notes = @ \o Note(call, step, success)]
               /\ pc' = StepAfter(step, success)
       ELSE /\ pc' = StepAfter(step, TRUE)
            /\ UNCHANGED <<sent, result>>
    /\ UNCHANGED <<now, call, spawned>>

ChangeTaskStatus == FollowUp("status")
MoveTaskToParent == FollowUp("parent")
MoveTaskToPosition == FollowUp("position")

\* the arguments tried; Null stands for None
EditArguments ==
    [item_type : {"task", "project"}, id : {"", "task-123"}, current_name : {""},
     new_status : {Null, "completed", "incomplete"}, mark_complete : BOOLEAN,
     new_parent_id : {Null, "", "parent-456"},
     new_position : {Null, "", "beginning"}]

CallEdit ==
    /\ pc = "idle"
    /\ \E args \in EditArguments : EditItem(args)

NextEdit ==
    \/ Tick
    \/ CallEdit
    \/ RunAppleScript
    \/ ChangeTaskStatus
    \/ MoveTaskToParent
    \/ MoveTaskToPosition
    \/ Return

SpecEdit == Init /\ [][NextEdit]_vars

----------------------------------------------------------------------------
(* batch_add.py: batch_add_items and its dependency loop. The local        *)
(* variables of the call are kept in `result` until it returns; `sent`     *)
(* holds what was submitted to OmniFocus and what OmniFocus created.       *)

\* largest number of items in one batch
MaxItems == 3

\* an item of the batch; "" stands for a missing (or empty) temp_id or
\* parent_temp_id
BatchItem(type, temp_id, parent_temp_id) ==
    [type |-> type, temp_id |-> temp_id, parent_temp_id |-> parent_temp_id]

\* the items tried: tasks with and without a temp_id, whose parent_temp_id is
\* absent, declared by some item ("a", "b") or by none ("zz"), and a project
BatchItems ==
    {BatchItem("task", t, p) : t \in {"", "a", "b"}, p \in {"", "a", "b", "zz"}}
        \cup {BatchItem("project", "a", "")}

RECURSIVE ListsUpTo(_, _)
ListsUpTo(S, n) ==
    IF n = 0 THEN {<<>>}
    ELSE LET shorter == ListsUpTo(S, n - 1)
         IN  shorter \cup {Append(l, x) : l \in {k \in shorter : Len(k) = n - 1}, x \in S}

\* can_process: the parent, if any, is already in temp_id_to_real_id
can_process_Always(item, temp_id_to_real_id) == TRUE

can_process(item, temp_id_to_real_id) ==
    ~(item.parent_temp_id # "" /\ item.parent_temp_id \notin DOMAIN temp_id_to_real_id)

\* max_iterations = len(items) * 2
max_iterations(n) == n * 2

all(processed) == \A i \in 1..Len(processed) : processed[i]

\* the loop test written with `or` and `<=`
WhileContinues_OrInclusive(processed, iteration, n) ==
    ~all(processed) \/ iteration <= max_iterations(n)

\* while not all(processed) and iteration < max_iterations
WhileContinues(processed, iteration, n) ==
    ~all(processed) /\ iteration < max_iterations(n)

\* the id OmniFocus gives to the item it creates for the item at an index
RealId(index) == "omni-" \o ToString(index)

\* f"placeholder_{temp_id}"
Placeholder(temp_id) == "placeholder_" \o temp_id

\* the parent_task_id handed to add_omnifocus_task ("" stands for None)
ResolvedParent(item, temp_id_to_real_id) ==
    IF item.parent_temp_id # "" /\ item.parent_temp_id \in DOMAIN temp_id_to_real_id
    THEN temp_id_to_real_id[item.parent_temp_id]
    ELSE ""

\* temp_id_to_real_id after an item was handled
Remember(temp_id_to_real_id, item, success) ==
    IF success /\ item.temp_id # ""
    THEN [t \in DOMAIN temp_id_to_real_id \cup {item.temp_id} |->
             IF t = item.temp_id THEN Placeholder(item.temp_id)
             ELSE temp_id_to_real_id[t]]
    ELSE temp_id_to_real_id

\* processed[i] = True, set only when the item was added
MarkProcessed_OnSuccess(processed, i, success) ==
    IF success THEN [processed EXCEPT ![i] = TRUE] ELSE processed

\* processed[i] = True, after the try block
MarkProcessed(processed, i, success) == [processed EXCEPT ![i] = TRUE]

ItemResult(index, item, success, error) ==
    [index |-> index, type |-> item.type, success |-> success, error |-> error]

\* the entries appended for the items left when a pass made no progress
RECURSIVE UnresolvedResults(_, _, _)
UnresolvedResults(items, processed, n) ==
    IF n = 0 THEN <<>>
    ELSE UnresolvedResults(items, processed, n - 1) \o
         (IF processed[n] THEN <<>>
          ELSE << ItemResult(n, items[n], FALSE,
                             "Unresolved dependency (parent_temp_id not found)") >>)

\* build_batch_summary(results, total)
build_batch_summary(results, total) ==
    LET success_count == Len(SelectSeq(results, LAMBDA r : r.success))
    IN  [total |-> total, success |-> success_count, failed |-> total - success_count,
         results |-> results]

\* the ids of the tasks OmniFocus holds: those of the store and those created
\* for this batch
KnownTaskIds(created) ==
    {flattenedTasks[i].id : i \in 1..Len(flattenedTasks)} \cup
    {created[i].id : i \in 1..Len(created)}

\* batch_add_items up to the while loop
BatchAddItems(items) ==
    /\ pc = "idle"
    /\ call' = [tool |-> "batch_add_items", items |-> items]
    /\ sent' = [tool |-> "batch_add_items", submitted |-> <<>>, created |-> <<>>]
    /\ result' = [kind |-> "running", results |-> <<>>,
                  temp_id_to_real_id |-> [t \in {} |-> ""],
                  processed |-> [i \in 1..Len(items) |-> FALSE],
                  iteration |-> 0, made_progress |-> FALSE, i |-> 1]
    /\ spawned' = 0
    /\ pc' = "while"
    /\ UNCHANGED now

\* the loop test: another pass, or return the summary
WhileTest ==
    /\ pc = "while"
    /\ IF WhileContinues(result.processed, result.iteration, Len(call.items))
       THEN /\ result' = [result EXCEPT !.iteration = @ + 1, !.made_progress = FALSE,
                                         !.i = 1]
            /\ pc' = "for"
       ELSE /\ result' = [kind |-> "returned", results |-> result.results,
                          processed |-> result.processed,
                          iteration |-> result.iteration,
                          summary |-> build_batch_summary(result.results,
                                                          Len(call.items))]
            /\ pc' = "done"
    /\ UNCHANGED <<now, call, sent, spawned>>

\* the for loop passes an item that is processed or cannot be processed yet
SkipItem ==
    /\ pc = "for"
    /\ result.i <= Len(call.items)
    /\ \/ result.processed[result.i]
       \/ ~can_process(call.items[result.i], result.temp_id_to_real_id)
    /\ result' = [result EXCEPT !.i = @ + 1]
    /\ UNCHANGED <<now, pc, call, sent, spawned>>

\* the for loop submits an item: add_project or add_omnifocus_task answers
\* with a message, or with "Error..." (always so when the parent task id is
\* not the id of a task)
SubmitItem ==
    /\ pc = "for"
    /\ result.i <= Len(call.items)
    /\ ~result.processed[result.i]
    /\ can_process(call.items[result.i], result.temp_id_to_real_id)
    /\ LET i == result.i
           item == call.items[i]
           parent_task_id == IF item.type = "project" THEN ""
                             ELSE ResolvedParent(item, result.temp_id_to_real_id)
       IN  \E success \in BOOLEAN :
              /\ success =>
                    (parent_task_id = "" \/ parent_task_id \in KnownTaskIds(sent.created))
              /\ sent' = [sent EXCEPT
                            !.submitted = Append(@, [index |-> i, type |-> item.type,
                                                     parent_task_id |-> parent_task_id,
                                                     success |-> success]),
                            !.created = IF success
                                        THEN Append(@, [index |-> i, id |-> RealId(i)])
                                        ELSE @]
              /\ result' = [result EXCEPT
                              !.results = Append(@, ItemResult(i, item, success,
                                                  IF success THEN "" ELSE "Error")),
                              !.temp_id_to_real_id = Remember(@, item, success),
                              !.processed = MarkProcessed(@, i, success),
                              !.made_progress = TRUE,
                              !.i = @ + 1]
    /\ spawned' = spawned + 1
    /\ UNCHANGED <<now, pc, call>>

\* the end of a pass: without progress the items left are marked as failed
EndPass ==
    /\ pc = "for"
    /\ result.i > Len(call.items)
    /\ IF ~result.made_progress /\ ~all(result.processed)
       THEN result' = [result EXCEPT
                         !.results = @ \o UnresolvedResults(call.items, result.processed,
                                                            Len(call.items)),
                         !.processed = [i \in 1..Len(call.items) |-> TRUE]]
       ELSE UNCHANGED result
    /\ pc' = "while"
    /\ UNCHANGED <<now, call, sent, spawned>>

CallBatch ==
    /\ pc = "idle"
    /\ \E items \in ListsUpTo(BatchItems, MaxItems) : BatchAddItems(items)

NextBatch ==
    \/ Tick
    \/ CallBatch
    \/ WhileTest
    \/ SkipItem
    \/ SubmitItem
    \/ EndPass
    \/ Return

SpecBatch == Init /\ [][NextBatch]_vars

----------------------------------------------------------------------------
(* Properties of query_omnifocus.                                          *)

QueryDone == pc = "done" /\ call.tool = "query_omnifocus"

\* the script counted the item (it is in `filtered` when the script returns)
Counted(item) == \E i \in 1..Len(result.filtered) : result.filtered[i] = item.id

\* the response lists the item
Returned(item) == \E i \in 1..Len(result.items) : result.items[i] = item.id

Candidates == Range(ItemsOf(call.entity))

\* start of the current day
StartOfDay == now - (now % TicksPerDay)

IsCompletedOrDropped(item) ==
    \/ item.type = "task" /\ item.taskStatus \in {"Completed", "Dropped"}
    \/ item.type = "project" /\ item.status \in {"Done", "Dropped"}

\* the default exclusion, as far as the request asks for it
NotExcluded(item) == call.include_completed \/ ~IsCompletedOrDropped(item)

\* the criterion of one present key, taken alone; a key whose value the
\* handler treats as absent (an empty list or string) constrains nothing
KeySatisfied(key, item) ==
    ConditionEmitted(call.filters, key) =>
        ConditionPasses(Cond(key, call.filters[key]), item, now)

\* C1: for every subset of the supported filter keys present in one request,
\* the query completes without error and returns exactly the entities that
\* satisfy the criterion of every present key.
C1_PresentKeysCombineWithAnd ==
    (QueryDone /\ call.limit = NoLimit /\ ~call.summary) =>
        /\ result.kind = "ok"
        /\ \A item \in Candidates :
              Returned(item) <=>
                  /\ NotExcluded(item)
                  /\ \A key \in DOMAIN call.filters : KeySatisfied(key, item)

\* C2: with due_within = N an entity matches iff it has a due date d with
\* S <= d <= S + N days, S being the start of the current day, at whatever
\* moment of the day the query is evaluated.
C2_DueWithinCountsFromStartOfDay ==
    (QueryDone /\ DOMAIN call.filters = {"due_within"} /\ call.include_completed
        /\ call.limit = NoLimit /\ ~call.summary) =>
        \A item \in Candidates :
            Returned(item) <=>
                /\ HasDate(item.dueDate)
                /\ StartOfDay <= DateOf(item.dueDate)
                /\ DateOf(item.dueDate)
                      <= StartOfDay + call.filters["due_within"].n * TicksPerDay

\* an entity has at least one tag of the list, or the list is empty
TagsCriterion(V, item) == V = {} \/ item.tags \cap V # {}

\* C3 (amended): with a tags filter of a non-empty list V an entity passes the
\* tags criterion iff one of its tag names is in V; an empty list constrains
\* nothing, every entity passes it.
C3_TagsAnyOfNonEmptyList ==
    (QueryDone /\ "tags" \in DOMAIN call.filters /\ result.kind = "ok") =>
        LET V == call.filters["tags"].l
        IN  /\ \A item \in Candidates : Counted(item) => TagsCriterion(V, item)
            /\ (DOMAIN call.filters = {"tags"} /\ call.limit = NoLimit) =>
                  \A item \in Candidates :
                      (TagsCriterion(V, item) /\ NotExcluded(item)) => Counted(item)

\* the OR across the values of the list is exercised: an entity holding one
\* of two listed tags is returned next to entities holding none being left out
C3_Witness ==
    /\ QueryDone /\ DOMAIN call.filters = {"tags"}
    /\ Cardinality(call.filters["tags"].l) = 2
    /\ \E item \in Candidates :
          Counted(item) /\ Cardinality(item.tags \cap call.filters["tags"].l) = 1
    /\ \E item \in Candidates : ~Counted(item) /\ NotExcluded(item)

\* C3 as stated: for every list V, the empty list included, only entities
\* with a tag in V pass the tags criterion.
C3_TagsAnyOfEveryList ==
    (QueryDone /\ "tags" \in DOMAIN call.filters /\ result.kind = "ok") =>
        \A item \in Candidates :
            Counted(item) => item.tags \cap call.filters["tags"].l # {}

\* C4: for projects, a status filter with list V returns a project iff the
\* project's own status is in V.
C4_ProjectStatusFilter ==
    (QueryDone /\ call.entity = "projects" /\ DOMAIN call.filters = {"status"}
        /\ call.include_completed /\ call.limit = NoLimit /\ ~call.summary) =>
        \A item \in Candidates :
            Returned(item) <=> item.status \in call.filters["status"].l

\* C9: with include_completed false, no completed or dropped task and no done
\* or dropped project is returned or counted, whatever the other arguments;
\* the exclusion is the first check the script makes.
C9_DefaultExclusion ==
    (QueryDone /\ ~call.include_completed) =>
        /\ \A item \in Candidates :
              IsCompletedOrDropped(item) => ~Counted(item) /\ ~Returned(item)
        /\ result.count <= Cardinality({item \in Candidates : ~IsCompletedOrDropped(item)})
        /\ call.entity \in {"tasks", "projects"} =>
              /\ Len(sent.checks) >= 1
              /\ sent.checks[1].key \in {"completed_task", "completed_project"}
              /\ \A i \in 2..Len(sent.checks) :
                    sent.checks[i].key \notin {"completed_task", "completed_project"}

\* a dropped or done entity meets every user filter of the request and is left
\* out all the same, while others are returned
C9_Witness ==
    /\ QueryDone /\ ~call.include_completed /\ call.filters # NoFilters
    /\ result.kind = "ok" /\ result.count > 0
    /\ \E item \in Candidates :
          /\ IsCompletedOrDropped(item)
          /\ \A key \in DOMAIN call.filters : KeySatisfied(key, item)
          /\ ~Counted(item)

----------------------------------------------------------------------------
(* Properties of search, browse and preprocess_date_filters.               *)

SearchDone == pc = "done" /\ call.tool = "search"
BrowseDone == pc = "done" /\ call.tool = "browse"
PreprocessDone == pc = "done" /\ call.tool = "preprocess_date_filters"

\* C5: a search for tasks or projects whose filters hold a key outside the
\* kind's valid key set is rejected before anything is handed to the bridge,
\* with an error naming the unknown keys and listing the valid ones.
C5_UnknownKeysRejected ==
    (SearchDone /\ validate_filters(call.given, call.entity).raised) =>
        /\ sent = NothingSent
        /\ spawned = 0
        /\ result.kind = "error"
        /\ result.error = "ValueError"
        /\ result.unknown = validate_filters(call.given, call.entity).unknown
        /\ result.valid = validate_filters(call.given, call.entity).valid

RelativeDateKeys ==
    {"due_within", "deferred_until", "deferred_on", "planned_within",
     "completed_within", "modified_before"}

\* the day offset from today a date string stands for
OffsetOf(value) ==
    CASE value = "today" -> 0
      [] value = "tomorrow" -> 1
      [] value = "yesterday" -> 0 - 1
      [] value \in IsoStrings -> 2

IsDateString(v) ==
    v.k = "str" /\ v.s \in {"today", "tomorrow", "yesterday"} \cup IsoStrings

\* every date string given for a relative-date key went out as its offset
SentAsOffsets(given, sentFilters) ==
    \A key \in RelativeDateKeys \cap DOMAIN given :
        IsDateString(given[key]) =>
            /\ key \in DOMAIN sentFilters
            /\ sentFilters[key] = IntVal(OffsetOf(given[key].s))

\* C6: in what search and browse hand to the bridge, a natural-language or ISO
\* date string given for any of the six relative-date keys is replaced by its
\* integer day offset from today (deferred_on "tomorrow" goes out as 1).
C6_DateStringsSentAsOffsets ==
    /\ SearchDone => SentAsOffsets(call.given, sent.params.filters)
    /\ BrowseDone =>
          /\ SentAsOffsets(call.given, sent.params.filters)
          /\ SentAsOffsets(call.given_task_filters, sent.params.task_filters)

IsNumeric(v) == v.k = "int" \/ (v.k = "str" /\ v.s \in NumericStrings)

\* C7: preprocess_date_filters returns the value of a relative-date key
\* unchanged whenever it is an integer or a numeric string such as "3".
C7_NumericValuesUnchanged ==
    PreprocessDone =>
        \A key \in RelativeDateKeys \cap DOMAIN call.given :
            IsNumeric(call.given[key]) =>
                /\ key \in DOMAIN result.filters
                /\ result.filters[key] = call.given[key]

\* the string value of a key parsed by preprocess_date_filters has no date
Unparseable(key) ==
    /\ key \in ParsedKeys(call.given)
    /\ ~HasDate(call.parser[call.given[key].s])

\* C8 (amended): when the string value of due_within, deferred_until or
\* planned_within cannot be parsed, that key is absent from the returned map;
\* every key that is not one of these three with a string value keeps its
\* input value (the other such keys are converted or dropped by the same
\* rule); no key is added, no error is raised and the caller's map is as it
\* was.
C8_UnparseableKeyDropped ==
    PreprocessDone =>
        /\ result.kind = "returned"
        /\ \A key \in DOMAIN call.given :
              /\ Unparseable(key) => key \notin DOMAIN result.filters
              /\ key \notin ParsedKeys(call.given) =>
                    /\ key \in DOMAIN result.filters
                    /\ result.filters[key] = call.given[key]
        /\ DOMAIN result.filters \subseteq DOMAIN call.given
        /\ call.filters = call.given

\* an unparseable due_within is dropped next to keys that stay
C8_Witness ==
    /\ PreprocessDone
    /\ Unparseable("due_within")
    /\ "due_within" \notin DOMAIN result.filters
    /\ DOMAIN result.filters # {}
    /\ "due_within" \in DOMAIN call.filters

\* C8 as stated: exactly the unparseable key is absent and every other key
\* keeps its input value.
C8_OnlyThatKeyChanges ==
    (PreprocessDone /\ \A key \in DOMAIN call.given : call.given[key].s \notin NumericStrings) =>
        \A key \in DOMAIN call.given :
            Unparseable(key) =>
                /\ DOMAIN result.filters = DOMAIN call.given \ {key}
                /\ \A other \in DOMAIN call.given \ {key} :
                      result.filters[other] = call.given[other]
                /\ call.filters = call.given

----------------------------------------------------------------------------
(* Properties of get_tree.                                                 *)

TreeDone == pc = "done" /\ call.tool = "get_tree" /\ result.kind = "ok"

\* every node of the response: the top-level nodes and all nodes below them
RECURSIVE NodesBelow(_)
NodesBelow(nodes) ==
    IF nodes = <<>> THEN {}
    ELSE {Head(nodes)} \cup NodesBelow(Head(nodes).children) \cup NodesBelow(Tail(nodes))

TreeNodes == NodesBelow(result.tree)

TaskById(id) == CHOOSE t \in Range(flattenedTasks) : t.id = id

\* a task that is completed or dropped
TaskCompletedOrDropped(task) ==
    task.completed \/ task.taskStatus \in {"Completed", "Dropped"}

\* C10: with include_completed false, the tree of get_tree holds no project
\* whose status is Done or Dropped and, with include_tasks true, no task that
\* is completed or dropped; taskCount counts no such task either.
C10_TreeExcludesCompletedAndDropped ==
    (TreeDone /\ ~call.include_completed) =>
        /\ \A node \in TreeNodes :
              node.type = "project" =>
                  ProjectById(node.of).status \notin {"Done", "Dropped"}
        /\ call.include_tasks =>
              /\ \A node \in TreeNodes :
                    node.type = "task" => ~TaskCompletedOrDropped(TaskById(node.of))
              /\ (~call.summary /\ call.include_projects) =>
                    result.taskCount =
                        Cardinality({node \in TreeNodes :
                            /\ node.type = "task"
                            /\ ~TaskCompletedOrDropped(TaskById(node.of))})

----------------------------------------------------------------------------
(* Properties of the projection, the sort and limit stage, and summary.    *)

\* a finished query_omnifocus call whose response lists at least one item
QueryListed == QueryDone /\ result.kind = "ok" /\ Len(result.items) > 0

\* C11: for every non-empty field list, every record the projection produces
\* (each item of a query_omnifocus result, each project or task node of a
\* get_tree result) carries the type discriminator, requested or not.
C11_TypeAlwaysProjected ==
    /\ (QueryListed /\ call.fields # {}) => "type" \in result.itemKeys
    /\ (TreeDone /\ call.fields # {}) =>
          \A node \in TreeNodes :
              node.type \in {"project", "task"} => "type" \in node.fields

\* the entity of the queried kind with the given id
EntityById(id) == CHOOSE item \in Candidates : item.id = id

\* the entity's sort field is null or missing
SortFieldNull(item) == SortValue(item, call.sort_by) = {}

\* a finished query_omnifocus call that sorted
QuerySorted == QueryDone /\ result.kind = "ok" /\ call.sort_by # ""

\* C12: for every sort_by field and both sort orders, every entity whose sort
\* field is null or missing comes after every entity whose sort field is
\* non-null in the sequence query_omnifocus returns.
C12_NullsSortLast ==
    QuerySorted =>
        \A i, j \in 1..Len(result.filtered) :
            (/\ SortFieldNull(EntityById(result.filtered[i]))
             /\ ~SortFieldNull(EntityById(result.filtered[j]))) => j < i

\* a descending sort that had to move entities without a due date behind
\* entities with one
C12_Witness ==
    /\ QuerySorted /\ ~call.summary
    /\ call.sort_by = "dueDate" /\ call.sort_order = "desc" /\ call.limit = NoLimit
    /\ call.entity = "tasks" /\ DOMAIN call.filters = {}
    /\ Returned(EntityById("T1")) /\ Returned(EntityById("T4"))
    /\ Returned(EntityById("T5"))
    /\ SortFieldNull(EntityById("T1")) /\ ~SortFieldNull(EntityById("T5"))

\* the entities the filter callback of the finished call lets through, in
\* store order
Matching ==
    SelectSeq(ItemsOf(call.entity), LAMBDA item : CallbackPasses(sent.checks, item, now))

Min(a, b) == IF a < b THEN a ELSE b

\* C13: whenever a limit L >= 0 is supplied, the returned items are exactly
\* the first min(L, n) entities of the filtered and then sorted sequence of n
\* entities, so never more than L items.
C13_LimitTruncatesAfterSort ==
    (QueryDone /\ result.kind = "ok" /\ call.limit # NoLimit /\ ~call.summary) =>
        /\ Len(result.items) <= call.limit
        /\ \E engine \in SortEngines :
              result.items =
                  SubSeq(Ids(Sort(sent.sort, engine, Matching)), 1,
                         Min(call.limit, Len(Matching)))

\* C14: with summary = true query_omnifocus returns no items and a count equal
\* to the number of entities that match the filters, whatever the limit,
\* sort_by and fields of the same request.
C14_SummaryCountsAllMatches ==
    (QueryDone /\ result.kind = "ok" /\ call.summary) =>
        /\ result.items = <<>>
        /\ ~result.hasItems
        /\ result.count = Len(Matching)

----------------------------------------------------------------------------
(* Properties of the traversal of get_tree.                                *)

\* a finished get_tree call, whatever it returned
TreeReturned == pc = "done" /\ call.tool = "get_tree"

\* folders whose name contains, or equals, parent_name without regard to case
NameMatches ==
    {f \in Range(flattenedFolders) :
        Includes(Lower(Chars(f.name)), Lower(Chars(call.parent_name)))}

ExactMatches ==
    {f \in Range(flattenedFolders) : Lower(Chars(f.name)) = Lower(Chars(call.parent_name))}

\* the response is an error without a tree whose suggestions are the folders
SuggestsExactly(folders) ==
    /\ result.kind = "error"
    /\ ~result.hasTree /\ result.tree = <<>>
    /\ Len(result.suggestions) = Cardinality(folders)
    /\ Range(result.suggestions) = {f.id : f \in folders}

OtherMode == EvaluateTree([sent EXCEPT !.summaryOnly = ~sent.summaryOnly], now)

\* C16: for fixed values of the other arguments, get_tree with summary = true
\* returns the same projectCount, folderCount and taskCount as get_tree with
\* summary = false.
C16_SummaryCountsEqualTreeCounts ==
    TreeDone =>
        /\ OtherMode.kind = "ok"
        /\ OtherMode.projectCount = result.projectCount
        /\ OtherMode.folderCount = result.folderCount
        /\ OtherMode.hasTaskCount = result.hasTaskCount
        /\ OtherMode.taskCount = result.taskCount

FolderById(id) == CHOOSE f \in Range(flattenedFolders) : f.id = id

\* the ids of the folders the traversal of the finished call started from
StartIds == {f.id : f \in Range(StartFolders(sent).folders)}

\* whether the folder is a start folder or lies below one
RECURSIVE UnderStart(_)
UnderStart(folderId) ==
    \/ folderId \in StartIds
    \/ folderId # Null /\ FolderById(folderId).parent # Null
          /\ UnderStart(FolderById(folderId).parent)

\* depth of a folder under the start folders, which are at depth 0
RECURSIVE DepthOf(_)
DepthOf(folderId) ==
    IF folderId \in StartIds THEN 0 ELSE 1 + DepthOf(FolderById(folderId).parent)

\* projects a traversal with the depth ceiling may return or count: those in
\* a folder less deep than max_depth, and those in no folder
WithinDepth ==
    {q \in Range(flattenedProjects) :
        \/ q.folder = Null
        \/ UnderStart(q.folder) /\ DepthOf(q.folder) < call.max_depth}

\* C17: with max_depth = D and the start folders at depth 0, get_tree neither
\* returns nor counts a project whose folder lies at depth D or deeper, and
\* returns no folder deeper than D, whatever the include toggles.
C17_DepthCeiling ==
    (TreeDone /\ call.max_depth # -1) =>
        /\ \A node \in TreeNodes :
              node.type = "project" => ProjectById(node.of) \in WithinDepth
        /\ \A node \in TreeNodes :
              node.type = "folder" => DepthOf(node.of) <= call.max_depth
        /\ result.projectCount <= Cardinality(WithinDepth)

\* whether the folder is `ancestorId` or lies below it
RECURSIVE IsUnder(_, _)
IsUnder(folderId, ancestorId) ==
    \/ folderId = ancestorId
    \/ folderId # Null /\ FolderById(folderId).parent # Null
          /\ IsUnder(FolderById(folderId).parent, ancestorId)

\* the folder has, directly or through nested folders, a project that passes
\* the project filter of the finished call
HasPassingDescendant(folderId) ==
    \E q \in Range(flattenedProjects) :
        /\ q.folder # Null
        /\ IsUnder(q.folder, folderId)
        /\ projectPassesFilter(sent, q, now)

\* C18: every folder node of a tree returned by get_tree, at any depth, has at
\* least one descendant project that passes the project filter.
C18_FoldersHaveMatchingDescendant ==
    TreeDone =>
        \A node \in TreeNodes :
            node.type = "folder" => HasPassingDescendant(node.of)

\* a tree that keeps a folder and leaves out a folder below the start folders
\* that has no passing project
C18_Witness ==
    /\ TreeDone /\ ~call.summary /\ call.parent_id = "" /\ call.parent_name = ""
    /\ \E node \in TreeNodes : node.type = "folder" /\ node.children # <<>>
    /\ \E f \in Range(flattenedFolders) :
          /\ ~HasPassingDescendant(f.id)
          /\ FolderById(f.id).parent # Null
          /\ \A node \in TreeNodes : node.of # f.id

----------------------------------------------------------------------------
(* Properties of the bridge and of the tool boundary.                      *)

\* a finished query_omnifocus or get_tree call that reached execute_omnijs
BridgeDone ==
    /\ pc = "done" /\ call.tool \in {"query_omnifocus", "get_tree"}
    /\ sent # NothingSent

\* the output of the process of the finished call, stripped
Output == strip(result.process.stdout)

ExitedZero == result.process.started /\ result.process.returncode = 0

\* the returned value is an object with a non-empty error message
IsErrorObject(value) ==
    /\ value.t = "object" /\ "error" \in value.keys
    /\ value.text # ErrorObject("").text

\* C19: for every outcome of the bridge process a query tool call returns:
\* output that parses as JSON as that JSON value; non-empty output that is not
\* JSON wrapped as {result: <raw output>, raw: true}; a non-zero exit status or
\* empty output as an object with an error message; and the process is
\* started at most once per call.
C19_BridgeOutcomes ==
    BridgeDone =>
        /\ spawned <= 1
        /\ ~result.raised
        /\ (ExitedZero /\ json_loads(Output).ok) =>
              result.value = json_loads(Output).value
        /\ (ExitedZero /\ Output # "" /\ ~json_loads(Output).ok) =>
              /\ result.value.keys = {"result", "raw"}
              /\ result.value = RawObject(Output)
        /\ (result.process.started /\ (result.process.returncode # 0 \/ Output = "")) =>
              IsErrorObject(result.value)

\* a process that was started once, wrote output and exited with a failure
C19_Witness ==
    /\ BridgeDone /\ spawned = 1
    /\ result.process.returncode # 0
    /\ result.process.stdout # ""
    /\ IsErrorObject(result.value)

\* a finished call of a query tool
BoundaryDone == pc = "done" /\ call.tool \in {"query_omnifocus", "get_tree", "search"}

\* C20: for every argument value accepted at the tool boundary, filter values
\* of any JSON type included, and every bridge outcome, query_omnifocus,
\* search and get_tree return a JSON response (a result or an object with an
\* error field) and let no exception reach the caller.
C20_NoExceptionAtBoundary ==
    BoundaryDone =>
        IF call.tool = "search" THEN result.kind \in {"ok", "error"}
        ELSE ~result.raised /\ result.value.t # "none"

----------------------------------------------------------------------------
(* The order of the filter keys.                                           *)

\* the script of the finished call with its conditions in another order
Reordered(p) == [sent EXCEPT !.checks = [i \in 1..Len(sent.checks) |-> sent.checks[p[i]]]]

\* C21: whether an entity matches does not depend on the order in which the
\* filter keys are iterated: with the conditions of the request's keys taken
\* in any order, the script returns the same response as the one returned.
C21_FilterKeyOrderIrrelevant ==
    QueryDone =>
        \E engine \in SortEngines :
            /\ result = EvaluateQuery(sent, now, engine)
            /\ \A p \in Permutations(1..Len(sent.checks)) :
                  EvaluateQuery(Reordered(p), now, engine) = result

\* a request with two keys that each reject an entity the other accepts, and
\* a response that lists some entity
C21_Witness ==
    /\ QueryDone /\ result.kind = "ok" /\ Len(result.items) > 0
    /\ \E k1, k2 \in DOMAIN call.filters :
          /\ k1 # k2
          /\ ConditionEmitted(call.filters, k1) /\ ConditionEmitted(call.filters, k2)
          /\ \E a, b \in Candidates :
                /\ NotExcluded(a) /\ NotExcluded(b)
                /\ KeySatisfied(k1, a) /\ ~KeySatisfied(k2, a)
                /\ KeySatisfied(k2, b) /\ ~KeySatisfied(k1, b)

----------------------------------------------------------------------------
(* Running a query twice.                                                  *)

\* the second run of a request has returned
RepeatDone == pc = "done" /\ call.tool = "query_omnifocus" /\ "first" \in DOMAIN call

\* C22: running the same flat query twice against an unchanged store yields
\* identical output, item for item and field for field.
C22_RepeatedQueryIdentical ==
    RepeatDone => result = call.first

----------------------------------------------------------------------------
(* The grouping arguments of search.                                       *)

\* a search call made with keyword arguments has ended
SearchKeywordsDone == SearchDone /\ "keywords" \in DOMAIN call

\* the value a keyword has in the call; Null when the caller omits it
GivenKeyword(name) ==
    IF name \in DOMAIN call.keywords THEN call.keywords[name] ELSE Null

\* the value of a key of the parameter object; "(no such key)" when absent
SentParam(name) ==
    IF sent.tool # "search" \/ name \notin sent.keys THEN "(no such key)"
    ELSE IF name \in DOMAIN sent.forwarded THEN sent.forwarded[name] ELSE Null

\* C24: search accepts group_by and aggregations and forwards them unchanged
\* in the parameters sent to the search script; when the caller omits them
\* the call still goes through and group_by is forwarded as null.
C24_GroupByForwarded ==
    SearchKeywordsDone =>
        /\ result.kind # "raised"
        /\ SentParam("group_by") = GivenKeyword("group_by")
        /\ SentParam("aggregations") = GivenKeyword("aggregations")

----------------------------------------------------------------------------
(* Properties of the grouped mode.                                         *)

GroupedDone == pc = "done" /\ call.tool = "grouped" /\ result.kind = "grouped"

\* the filtered entities of the finished call whose group key is null
NullKeyed ==
    {id \in Range(result.filtered) :
        GroupKey(EntityById(id), call.group_by) = Null}

\* C23: the sum of count over all top-level groups equals the number of
\* entities in the filtered collection; the entities whose group key is null
\* or missing are counted in a group of their own keyed null, none dropped.
C23_GroupCountsSumToFiltered ==
    GroupedDone =>
        /\ SumOf(result.groups, "count") = Len(result.filtered)
        /\ NullKeyed # {} =>
              \E i \in 1..Len(result.groups) :
                  /\ result.groups[i].key = Null
                  /\ Range(result.groups[i].members) = NullKeyed
                  /\ result.groups[i].count = Cardinality(NullKeyed)

\* a grouped result with a null-keyed group next to other groups
C23_Witness ==
    /\ GroupedDone
    /\ Len(result.groups) >= 3
    /\ NullKeyed # {}
    /\ Cardinality(NullKeyed) < Len(result.filtered)

----------------------------------------------------------------------------
(* Properties of the follow-up operations of edit_item.                    *)

EditInProgress == call.tool = "edit_item" /\ sent.tool = "edit_item"
EditDone == pc = "done" /\ EditInProgress

FollowUpSteps == << "status", "parent", "position" >>

\* the position of a step in the order status, parent, position
StepRank(step) == CHOOSE i \in 1..Len(FollowUpSteps) : FollowUpSteps[i] = step

\* the step has been attempted
Attempted(step) == \E i \in 1..Len(sent.attempts) : sent.attempts[i].step = step

\* the message reports the failure of the step
FailureReported(step) ==
    \E i \in 1..Len(result.notes) :
        result.notes[i] = CASE step = "status" -> "status change failed"
                            [] step = "parent" -> "parent change failed"
                            [] step = "position" -> "repositioning failed"

\* C27: in edit_item for a task the follow-up operations are attempted only
\* after the AppleScript edit has reported success, at most once each and in
\* the order status, parent, position; the failure of one does not prevent the
\* later ones from being attempted, and is reported in the returned message.
C27_FollowUpsAfterEdit ==
    EditInProgress =>
        /\ sent.attempts # <<>> => (sent.edited /\ call.item_type = "task")
        /\ \A i, j \in 1..Len(sent.attempts) :
              i < j => StepRank(sent.attempts[i].step) < StepRank(sent.attempts[j].step)
        /\ (EditDone /\ sent.edited /\ call.item_type = "task") =>
              /\ \A step \in Range(FollowUpSteps) :
                    Requested(call, step) => Attempted(step)
              /\ \A i \in 1..Len(sent.attempts) :
                    ~sent.attempts[i].success => FailureReported(sent.attempts[i].step)

\* the status change failed, and the move to the new parent and to the new
\* position were attempted after it
C27_Witness ==
    /\ EditDone /\ sent.edited
    /\ Len(sent.attempts) = 3
    /\ ~sent.attempts[1].success
    /\ sent.attempts[2].success
    /\ ~sent.attempts[3].success

----------------------------------------------------------------------------
(* Properties of batch_add_items.                                          *)

BatchRunning == call.tool = "batch_add_items" /\ sent.tool = "batch_add_items"
BatchDone == pc = "done" /\ BatchRunning

\* the input item of an entry of the submission log
SubmittedItem(k) == call.items[sent.submitted[k].index]

\* C25: when a task item has a parent_temp_id that refers to an item created
\* in the same batch, the parent_task_id passed to task creation is the real
\* OmniFocus id of the item created for that temp_id.
C25_ParentTempIdResolvedToRealId ==
    BatchRunning =>
        \A k \in 1..Len(sent.submitted) :
            (SubmittedItem(k).type = "task" /\ SubmittedItem(k).parent_temp_id # "") =>
                \E c \in 1..Len(sent.created) :
                    /\ call.items[sent.created[c].index].temp_id =
                           SubmittedItem(k).parent_temp_id
                    /\ sent.submitted[k].parent_task_id = sent.created[c].id

\* an item carrying the temp_id was created successfully before entry k of
\* the submission log
ParentCreatedBefore(k) ==
    \E j \in 1..(k - 1) :
        /\ sent.submitted[j].success
        /\ SubmittedItem(j).temp_id = SubmittedItem(k).parent_temp_id

\* the item at an index has been submitted to OmniFocus
Submitted(index) ==
    \E k \in 1..Len(sent.submitted) : sent.submitted[k].index = index

\* no item carrying the temp_id was created successfully in the batch
NeverCreated(temp_id) ==
    ~\E j \in 1..Len(sent.submitted) :
        sent.submitted[j].success /\ SubmittedItem(j).temp_id = temp_id

ReportedUnresolved(index) ==
    \E r \in 1..Len(result.results) :
        /\ result.results[r].index = index
        /\ ~result.results[r].success
        /\ result.results[r].error = "Unresolved dependency (parent_temp_id not found)"

\* C26: an item that has a parent_temp_id is submitted to OmniFocus only
\* after an item carrying that temp_id has been created successfully in the
\* same batch, whatever the order of the input list; an item whose parent is
\* never created successfully is never submitted and is reported as failed
\* with an unresolved-dependency error.
C26_ChildSubmittedAfterParent ==
    BatchRunning =>
        /\ \A k \in 1..Len(sent.submitted) :
              SubmittedItem(k).parent_temp_id # "" => ParentCreatedBefore(k)
        /\ BatchDone =>
              \A index \in 1..Len(call.items) :
                  (/\ call.items[index].parent_temp_id # ""
                   /\ NeverCreated(call.items[index].parent_temp_id)) =>
                      (~Submitted(index) /\ ReportedUnresolved(index))

\* a child listed before its parent was submitted after it, and an item
\* whose parent nobody declares was reported as unresolved
C26_Witness ==
    /\ BatchDone /\ Len(call.items) = 3
    /\ call.items[1].parent_temp_id = "a" /\ call.items[2].temp_id = "a"
    /\ call.items[3].parent_temp_id = "zz"
    /\ Len(sent.submitted) = 2
    /\ sent.submitted[1].index = 2 /\ sent.submitted[2].index = 1
    /\ ReportedUnresolved(3)

\* the steps left to a running call: passes left, then items left in the pass
Measure ==
    LET n == Len(call.items)
        passes == (max_iterations(n) - result.iteration) * (n + 3)
    IN  CASE pc = "while" -> passes + 1
          [] pc = "for" -> passes + 1 + (n + 2 - result.i)
          [] OTHER -> 0

InLoop == BatchRunning /\ pc \in {"while", "for"}

\* C28: batch_add_items terminates for every finite items list, including
\* lists whose parent_temp_id references are self-referential, cyclic or
\* point to a temp_id no item declares, after at most 2 * len(items) passes:
\* the number of passes never exceeds that bound, a running call can always
\* take a step, and every step brings it closer to its return.
C28_BatchTerminates ==
    /\ [](BatchRunning => result.iteration <= 2 * Len(call.items))
    /\ [](InLoop => (Measure > 0 /\ ENABLED (WhileTest \/ SkipItem \/ SubmitItem \/ EndPass)))
    /\ [][InLoop => Measure' < Measure]_vars

\* a batch with a cycle, a self-reference and an undeclared parent returned
C28_Witness ==
    /\ BatchDone /\ result.kind = "returned"
    /\ \E i, j, k \in 1..Len(call.items) :
          /\ i # j
          /\ call.items[i].temp_id # "" /\ call.items[j].temp_id # ""
          /\ call.items[i].parent_temp_id = call.items[j].temp_id
          /\ call.items[j].parent_temp_id = call.items[i].temp_id
          /\ call.items[k].parent_temp_id = "zz"
    /\ result.iteration >= 1

\* C29: when batch_add_items returns, the results hold exactly one entry for
\* every input index, and the summary has total = number of input items =
\* success + failed, success being the number of entries whose success flag
\* is true.
C29_OneResultPerItem ==
    (BatchDone /\ result.kind = "returned") =>
        LET n == Len(call.items)
            entries == result.summary.results
        IN  /\ \A index \in 1..n :
                  Cardinality({r \in 1..Len(entries) : entries[r].index = index}) = 1
            /\ \A r \in 1..Len(entries) : entries[r].index \in 1..n
            /\ result.summary.total = n
            /\ result.summary.total = result.summary.success + result.summary.failed
            /\ result.summary.success =
                  Cardinality({r \in 1..Len(entries) : entries[r].success})

\* a returned batch with an added item, an item OmniFocus refused and an
\* item left unresolved
C29_Witness ==
    /\ BatchDone /\ result.kind = "returned" /\ Len(call.items) = 3
    /\ result.summary.success = 1 /\ result.summary.failed = 2
    /\ \E index \in 1..3 : ReportedUnresolved(index)
    /\ \E k \in 1..Len(sent.submitted) : ~sent.submitted[k].success

----------------------------------------------------------------------------
(* The counters of a get_tree tree.                                        *)

NodesOfType(type) == {node \in TreeNodes : node.type = type}

\* C30: in every non-summary get_tree result projectCount equals the number
\* of project nodes in the returned tree (root-level projects included),
\* taskCount the number of task nodes attached to those projects (a result
\* without the taskCount key holds no task node), and folderCount is at least
\* the number of folder nodes in the tree.
C30_TreeCountsMatchNodes ==
    (TreeDone /\ ~call.summary /\ result.hasTree) =>
        /\ result.projectCount = Cardinality(NodesOfType("project"))
        /\ result.hasTaskCount => result.taskCount = Cardinality(NodesOfType("task"))
        /\ ~result.hasTaskCount => NodesOfType("task") = {}
        /\ result.folderCount >= Cardinality(NodesOfType("folder"))

\* a tree with folders at two levels, a root-level project and tasks, built
\* from more folders than it shows
C30_Witness ==
    /\ TreeDone /\ ~call.summary /\ result.hasTree /\ result.hasTaskCount
    /\ \E node \in NodesOfType("folder") :
          \E i \in 1..Len(node.children) : node.children[i].type = "folder"
    /\ \E i \in 1..Len(result.tree) : result.tree[i].type = "project"
    /\ NodesOfType("task") # {}
    /\ result.folderCount > Cardinality(NodesOfType("folder"))

============================================================================
